---- MODULE Spec2Model ----
(***************************************************************************)
(* Model of unly/url-query: Decode binds a url.Values map (key -> list of  *)
(* strings) into the fields of a record, Encode writes the fields of a     *)
(* record back into such a map.                                            *)
(*                                                                         *)
(* Strings are sequences of one-character strings, so that parsing,        *)
(* formatting, tag splitting and name derivation are computed and not      *)
(* assumed.  Integers are sign + magnitude, the magnitude being four       *)
(* 16-bit limbs (least significant first), so that the 8/16/32/64-bit      *)
(* range checks of strconv and the width of int/uint are real.             *)
(***************************************************************************)
EXTENDS Integers, Sequences, FiniteSets, TLC

VARIABLES
    intSize,  \* strconv.IntSize of the build: width of int and uint (32 or 64)
    refactored, \* which parseField the build holds: TRUE for the refactored one
    shape,    \* how the caller passes the object: the obj argument's form
    typ,      \* the type T the object is built from (fields, method sets)
    obj,      \* the data of the obj argument, as shape lays it out
    q,        \* the url.Values given to the last Decode (NilMap before any)
    qNow,     \* that url.Values as the caller holds it now
    before,   \* the object's data when the last call or write started
    ret,      \* what the last call returned: its error, or a panic
    out,      \* the url.Values the last Encode returned
    fresh,    \* the new object the last Encode's map was decoded into
    calls,    \* the DecodeQuery / EncodeValues calls the last call made
    op        \* the caller's last step: "new", "Decode", "Encode", "DecodeBack",
              \* "WriteField" or "WriteMap"

vars == <<intSize, refactored, shape, typ, obj, q, qNow, before, ret, out, fresh, calls, op>>

(***************************************************************************)
(* Text                                                                    *)
(***************************************************************************)
Digits == <<"0", "1", "2", "3", "4", "5", "6", "7", "8", "9">>

IsDigit(c) == \E i \in 1..10 : Digits[i] = c

DigitVal(c) == (CHOOSE i \in 1..10 : Digits[i] = c) - 1

\* strings.Split(s, ","): the tokens between commas; one empty token for ""
RECURSIVE SplitFrom(_, _, _)
SplitFrom(s, i, cur) ==
    IF i > Len(s) THEN <<cur>>
    ELSE IF s[i] = "," THEN <<cur>> \o SplitFrom(s, i + 1, <<>>)
    ELSE SplitFrom(s, i + 1, Append(cur, s[i]))

Split(s) == SplitFrom(s, 1, <<>>)

Upper == <<"A", "B", "C", "F", "I", "N", "O", "P", "S", "U", "V">>
Lower == <<"a", "b", "c", "f", "i", "n", "o", "p", "s", "u", "v">>

IsUpper(c) == \E i \in 1..Len(Upper) : Upper[i] = c

\* unicode.ToLower on one character
ToLower(c) ==
    IF IsUpper(c) THEN Lower[CHOOSE i \in 1..Len(Upper) : Upper[i] = c] ELSE c

AllLower(s) == [i \in 1..Len(s) |-> ToLower(s[i])]

(***************************************************************************)
(* 64-bit arithmetic on four 16-bit limbs                                  *)
(***************************************************************************)
LimbBase == 256 * 256

Zero4 == <<0, 0, 0, 0>>

\* n * 10 + d, with the carry out of bit 64
MulAdd10(n, d) ==
    LET t1 == n[1] * 10 + d
        t2 == n[2] * 10 + (t1 \div LimbBase)
        t3 == n[3] * 10 + (t2 \div LimbBase)
        t4 == n[4] * 10 + (t3 \div LimbBase)
    IN  [limbs |-> <<t1 % LimbBase, t2 % LimbBase, t3 % LimbBase, t4 % LimbBase>>,
         carry |-> t4 \div LimbBase]

\* a <= b on limbs
Leq4(a, b) ==
    \/ a[4] < b[4]
    \/ a[4] = b[4] /\ a[3] < b[3]
    \/ a[4] = b[4] /\ a[3] = b[3] /\ a[2] < b[2]
    \/ a[4] = b[4] /\ a[3] = b[3] /\ a[2] = b[2] /\ a[1] <= b[1]

\* n \div 10 and n % 10
DivMod10(n) ==
    LET c4 == n[4]
        c3 == (c4 % 10) * LimbBase + n[3]
        c2 == (c3 % 10) * LimbBase + n[2]
        c1 == (c2 % 10) * LimbBase + n[1]
    IN  [quo |-> <<c1 \div 10, c2 \div 10, c3 \div 10, c4 \div 10>>, rem |-> c1 % 10]

\* 1<<bitSize - 1
MaxUint(bitSize) ==
    CASE bitSize = 8  -> <<255, 0, 0, 0>>
      [] bitSize = 16 -> <<LimbBase - 1, 0, 0, 0>>
      [] bitSize = 32 -> <<LimbBase - 1, LimbBase - 1, 0, 0>>
      [] bitSize = 64 -> <<LimbBase - 1, LimbBase - 1, LimbBase - 1, LimbBase - 1>>

\* 1 << (bitSize - 1)
SignBit(bitSize) ==
    CASE bitSize = 8  -> <<128, 0, 0, 0>>
      [] bitSize = 16 -> <<LimbBase \div 2, 0, 0, 0>>
      [] bitSize = 32 -> <<0, LimbBase \div 2, 0, 0>>
      [] bitSize = 64 -> <<0, 0, 0, LimbBase \div 2>>

\* n - 1 for n > 0
Dec4(n) ==
    IF n[1] > 0 THEN <<n[1] - 1, n[2], n[3], n[4]>>
    ELSE IF n[2] > 0 THEN <<LimbBase - 1, n[2] - 1, n[3], n[4]>>
    ELSE IF n[3] > 0 THEN <<LimbBase - 1, LimbBase - 1, n[3] - 1, n[4]>>
    ELSE <<LimbBase - 1, LimbBase - 1, LimbBase - 1, n[4] - 1>>

\* An integer value: sign and magnitude; zero is not negative.
MkInt(neg, mag) == [neg |-> neg /\ mag # Zero4, mag |-> mag]

IntZero == MkInt(FALSE, Zero4)

Small(n) == MkInt(n < 0, <<IF n < 0 THEN 0 - n ELSE n, 0, 0, 0>>)

\* 2^32 - lo for the low two limbs lo # 0 of a magnitude
Neg32(a, b) ==
    IF a = 0 THEN <<0, LimbBase - b, 0, 0>> ELSE <<LimbBase - a, LimbBase - 1 - b, 0, 0>>

\* int32(x): the low 32 bits of the two's complement of x, read as signed
TruncInt32(x) ==
    LET a  == x.mag[1]
        b  == x.mag[2]
        lo == IF x.neg /\ (a # 0 \/ b # 0) THEN Neg32(a, b) ELSE <<a, b, 0, 0>>
    IN  IF lo[2] >= LimbBase \div 2
        THEN MkInt(TRUE, Neg32(lo[1], lo[2]))
        ELSE MkInt(FALSE, lo)

\* uint32(x): the low 32 bits
TruncUint32(x) == MkInt(FALSE, <<x.mag[1], x.mag[2], 0, 0>>)

(***************************************************************************)
(* strconv                                                                 *)
(***************************************************************************)
NoErr == "nil"
ErrSyntax == "invalid syntax"
ErrRange == "value out of range"

\* The digit loop of strconv.ParseUint(s, 10, bitSize)
RECURSIVE ParseUintLoop(_, _, _, _)
ParseUintLoop(s, i, n, bitSize) ==
    IF i > Len(s) THEN [mag |-> n, err |-> NoErr]
    ELSE IF ~IsDigit(s[i]) THEN [mag |-> Zero4, err |-> ErrSyntax]
    ELSE LET Step(m) ==
                 IF m.carry # 0 \/ ~Leq4(m.limbs, MaxUint(bitSize))
                 THEN [mag |-> MaxUint(bitSize), err |-> ErrRange]
                 ELSE ParseUintLoop(s, i + 1, m.limbs, bitSize)
         IN  Step(MulAdd10(n, DigitVal(s[i])))

\* strconv.ParseUint(s, 10, bitSize)
ParseUint(s, bitSize) ==
    IF Len(s) = 0 THEN [mag |-> Zero4, err |-> ErrSyntax]
    ELSE ParseUintLoop(s, 1, Zero4, bitSize)

\* strconv.ParseInt(s, 10, bitSize): the value (clamped on a range error)
\* and the error
ParseInt(s, bitSize) ==
    IF Len(s) = 0 THEN [v |-> IntZero, err |-> ErrSyntax]
    ELSE LET Signed(neg, un) ==
                 IF un.err = ErrSyntax THEN [v |-> IntZero, err |-> ErrSyntax]
                 ELSE IF ~neg /\ Leq4(SignBit(bitSize), un.mag)
                 THEN [v |-> MkInt(FALSE, Dec4(SignBit(bitSize))), err |-> ErrRange]
                 ELSE IF neg /\ ~Leq4(un.mag, SignBit(bitSize))
                 THEN [v |-> MkInt(TRUE, SignBit(bitSize)), err |-> ErrRange]
                 ELSE [v |-> MkInt(neg, un.mag), err |-> NoErr]
         IN  Signed(s[1] = "-",
                    ParseUint(IF s[1] = "+" \/ s[1] = "-" THEN Tail(s) ELSE s, bitSize))

sTrue == <<"t", "r", "u", "e">>
sFalse == <<"f", "a", "l", "s", "e">>

\* strconv.ParseBool
ParseBool(s) ==
    IF s \in {<<"1">>, <<"t">>, <<"T">>, <<"T", "R", "U", "E">>, sTrue,
              <<"T", "r", "u", "e">>}
    THEN [v |-> TRUE, err |-> NoErr]
    ELSE IF s \in {<<"0">>, <<"f">>, <<"F">>, <<"F", "A", "L", "S", "E">>, sFalse,
                   <<"F", "a", "l", "s", "e">>}
    THEN [v |-> FALSE, err |-> NoErr]
    ELSE [v |-> FALSE, err |-> ErrSyntax]

\* strconv.FormatBool
FormatBool(b) == IF b THEN sTrue ELSE sFalse

\* strconv.FormatUint(n, 10)
RECURSIVE FormatMag(_)
FormatMag(n) ==
    LET Digit(d) ==
            IF d.quo = Zero4 THEN <<Digits[d.rem + 1]>>
            ELSE Append(FormatMag(d.quo), Digits[d.rem + 1])
    IN  Digit(DivMod10(n))

FormatUint(x) == FormatMag(x.mag)

\* FormatInt that writes the magnitude and loses the sign
FormatIntNoSign(x) == FormatMag(x.mag)

\* strconv.FormatInt(n, 10)
FormatInt(x) == IF x.neg THEN <<"-">> \o FormatMag(x.mag) ELSE FormatMag(x.mag)

\* strconv.Atoi: ParseInt at the width of int, reported as Atoi
Atoi(s, isz) == ParseInt(s, isz)

(***************************************************************************)
(* Types, values and errors                                                *)
(*                                                                         *)
(* A type is [Name, Kind, Elem, Fields, Dec, Enc]: Elem holds the element  *)
(* type of a pointer or slice, Fields the field descriptors of a struct,   *)
(* Dec / Enc say whether DecodeQuery / EncodeValues is declared on the     *)
(* type ("value"), on its pointer ("ptr") or not at all ("none").          *)
(* A field is [Name, Type, Tag], Tag holding the looked-up `query` and     *)
(* `default` tags, each <<>> when absent and <<text>> when present.        *)
(* Data: text for string, BOOLEAN for bool, MkInt for the integer kinds,   *)
(* <<>> or <<referent>> for a pointer, [isNil, elems, shared] for a slice, *)
(* a sequence of field data for a struct.  The float kinds are not         *)
(* modelled.                                                               *)
(***************************************************************************)
IntKinds == {"int", "int8", "int16", "int32", "int64"}
UintKinds == {"uint", "uint8", "uint16", "uint32", "uint64"}

ScalarKinds == {"string", "bool"} \cup IntKinds \cup UintKinds

Scalar(name) ==
    [Name |-> name, Kind |-> name, Elem |-> <<>>, Fields |-> <<>>,
     Dec |-> "none", Enc |-> "none"]

PtrTo(t) ==
    [Name |-> "ptr", Kind |-> "ptr", Elem |-> <<t>>, Fields |-> <<>>,
     Dec |-> "none", Enc |-> "none"]

SliceOf(t) ==
    [Name |-> "slice", Kind |-> "slice", Elem |-> <<t>>, Fields |-> <<>>,
     Dec |-> "none", Enc |-> "none"]

\* map[string]string and chan int: nil is <<>>, a made one <<"made">>
MapType ==
    [Name |-> "map", Kind |-> "map", Elem |-> <<>>, Fields |-> <<>>,
     Dec |-> "none", Enc |-> "none"]

ChanType ==
    [Name |-> "chan", Kind |-> "chan", Elem |-> <<>>, Fields |-> <<>>,
     Dec |-> "none", Enc |-> "none"]

Struct(name, fields, dec, enc) ==
    [Name |-> name, Kind |-> "struct", Elem |-> <<>>, Fields |-> fields,
     Dec |-> dec, Enc |-> enc]

NoTag == [query |-> <<>>, default |-> <<>>]

Field(name, t, tag) == [Name |-> name, Type |-> t, Tag |-> tag]

\* IsExported that lets every field through
IsExportedAlways(f) == TRUE

\* reflect.StructField.IsExported
IsExported(f) == IsUpper(f.Name[1])

NilSlice == [isNil |-> TRUE, elems |-> <<>>, shared |-> FALSE]

\* the zero value of a type
RECURSIVE Zero(_)
Zero(t) ==
    CASE t.Kind = "string" -> <<>>
      [] t.Kind = "bool" -> FALSE
      [] t.Kind \in IntKinds \cup UintKinds -> IntZero
      [] t.Kind = "ptr" -> <<>>
      [] t.Kind = "slice" -> NilSlice
      [] t.Kind = "struct" -> [i \in 1..Len(t.Fields) |-> Zero(t.Fields[i].Type)]
      [] t.Kind \in {"map", "chan"} -> <<>>

\* An error value; NilErr is the nil error.
NumError(fn, s, e) == [Func |-> fn, Num |-> s, Err |-> e]
NilErr == NumError("", <<>>, NoErr)

\* What a call returns: nil, one error, the join of a field loop's errors,
\* or no return at all (a panic).
RetNil == [kind |-> "nil", errs |-> <<>>]
RetErr(e) == IF e = NilErr THEN RetNil ELSE [kind |-> "error", errs |-> <<e>>]
RetPanic == [kind |-> "panic", errs |-> <<>>]

\* errors.Join(errs...)
Join(errs) == IF Len(errs) = 0 THEN RetNil ELSE [kind |-> "join", errs |-> errs]

(***************************************************************************)
(* url.Values                                                              *)
(***************************************************************************)
EmptyMap == [k \in {} |-> <<>>]
NilMap == [isNil |-> TRUE, m |-> EmptyMap]
MakeMap(m) == [isNil |-> FALSE, m |-> m]

\* m[key]: the zero list when the key is absent
Lookup(m, key) == IF key \in DOMAIN m THEN m[key] ELSE <<>>

\* url.Values.Get
Get(m, key) == IF Len(Lookup(m, key)) = 0 THEN <<>> ELSE Lookup(m, key)[1]

\* an Add that replaces the key's list
AddAllReplacing(m, key, values) ==
    [k \in DOMAIN m \cup {key} |-> IF k = key THEN values ELSE m[k]]

\* v[key] = append(v[key], values...), as url.Values.Add does for one value
AddAll(m, key, values) ==
    [k \in DOMAIN m \cup {key} |->
        IF k = key THEN Lookup(m, key) \o values ELSE m[k]]

(***************************************************************************)
(* Naming resolver                                                         *)
(***************************************************************************)
\* getNameTags that lower-cases the whole field name
getNameTagsAllLower(f) ==
    IF Len(f.Tag.query) = 0 THEN <<AllLower(f.Name)>> ELSE Split(f.Tag.query[1])

\* getNameTags: the comma-separated tokens of the query tag, or the field
\* name with its first character lower-cased
getNameTags(f) ==
    IF Len(f.Tag.query) = 0
    THEN <<[i \in 1..Len(f.Name) |-> IF i = 1 THEN ToLower(f.Name[1]) ELSE f.Name[i]]>>
    ELSE Split(f.Tag.query[1])

\* getDefaultTags: the comma-separated tokens of the default tag, or nil
getDefaultTags(f) ==
    IF Len(f.Tag.default) = 0 THEN <<>> ELSE Split(f.Tag.default[1])

getName(f) == getNameTags(f)[1]

(***************************************************************************)
(* reflect                                                                 *)
(***************************************************************************)
\* A reflect.Value: its type, the data it refers to, and whether it is
\* addressable.  Invalid is the zero Value.
RV(t, data, addr) == [valid |-> TRUE, typ |-> t, data |-> data, canAddr |-> addr]
Invalid == [valid |-> FALSE, typ |-> Scalar("invalid"), data |-> <<>>, canAddr |-> FALSE]

\* reflect.Value.Elem of a pointer: the zero Value for a nil pointer
Elem(rv) ==
    IF Len(rv.data) = 0 THEN Invalid ELSE RV(rv.typ.Elem[1], rv.data[1], TRUE)

\* reflect.Type.Implements(decoderType): the method set of T holds the
\* methods declared on T, that of *T those declared on T and on *T
ImplementsDecoder(t) ==
    IF t.Kind = "ptr"
    THEN t.Elem[1].Kind # "ptr" /\ t.Elem[1].Dec \in {"ptr", "value"}
    ELSE t.Dec = "value"

\* reflect.Value.SetInt / SetUint store at the width of the field's kind;
\* every kind but int and uint was parsed at its own width
SetInt(kind, x, isz) == IF kind = "int" /\ isz = 32 THEN TruncInt32(x) ELSE x
SetUint(kind, x, isz) == IF kind = "uint" /\ isz = 32 THEN TruncUint32(x) ELSE x

(***************************************************************************)
(* Decode                                                                  *)
(***************************************************************************)
sCustom == <<"c", "u", "s", "t", "o", "m">>
sCalled == <<"c", "a", "l", "l", "e", "d">>

\* The DecodeQuery methods of the repository's types: customStruct sets its
\* Int to Atoi(q.Get("custom")) and returns Atoi's error; customDecoderType
\* sets itself to "called".
DecodeQuery(t, qm, data, isz) ==
    IF t.Name = "customStruct"
    THEN LET Set(s, r) ==
                 [data |-> <<r.v>>,
                  err  |-> IF r.err = NoErr THEN NilErr ELSE NumError("Atoi", s, r.err)]
         IN  Set(Get(qm, sCustom), Atoi(Get(qm, sCustom), isz))
    ELSE [data |-> sCalled, err |-> NilErr]

CallOf(fn, t, arg) == [fn |-> fn, recv |-> t.Name, arg |-> arg]

NotCustom(data) == [custom |-> FALSE, ret |-> RetNil, data |-> data, calls |-> <<>>]

\* m.DecodeQuery(q) on a receiver of base type t holding data: a method
\* declared on the value works on a copy
RunDecoder(t, qm, data, isz) ==
    LET Ran(r) ==
            [ret   |-> RetErr(r.err),
             data  |-> IF t.Dec = "ptr" THEN r.data ELSE data,
             calls |-> <<CallOf("DecodeQuery", t, qm)>>]
    IN  Ran(DecodeQuery(t, qm, data, isz))

\* decodeCustom that runs a nil pointer's DecodeQuery on a new referent it
\* never attaches
decodeCustomDetached(qm, rv, isz) ==
    LET t == rv.typ
        Direct(r) == [custom |-> TRUE, ret |-> r.ret, data |-> r.data, calls |-> r.calls]
        Through(r) == [custom |-> TRUE, ret |-> r.ret, data |-> <<r.data>>, calls |-> r.calls]
        Dropped(r) == [custom |-> TRUE, ret |-> r.ret, data |-> rv.data, calls |-> r.calls]
    IN  IF ~ImplementsDecoder(t)
        THEN IF rv.canAddr /\ ImplementsDecoder(PtrTo(t))
             THEN Direct(RunDecoder(t, qm, rv.data, isz))
             ELSE NotCustom(rv.data)
        ELSE IF t.Kind = "ptr" /\ Len(rv.data) = 0
        THEN Dropped(RunDecoder(t.Elem[1], qm, Zero(t.Elem[1]), isz))
        ELSE IF t.Kind = "ptr"
        THEN Through(RunDecoder(t.Elem[1], qm, rv.data[1], isz))
        ELSE Direct(RunDecoder(t, qm, rv.data, isz))

\* decodeCustom: whether val (or its address) is a Decoder, and if so the
\* outcome of its DecodeQuery; a nil pointer is allocated and set first
decodeCustom(qm, rv, isz) ==
    LET t == rv.typ
        Direct(r) == [custom |-> TRUE, ret |-> r.ret, data |-> r.data, calls |-> r.calls]
        Through(r) == [custom |-> TRUE, ret |-> r.ret, data |-> <<r.data>>, calls |-> r.calls]
    IN  IF ~ImplementsDecoder(t)
        THEN IF rv.canAddr /\ ImplementsDecoder(PtrTo(t))
             THEN Direct(RunDecoder(t, qm, rv.data, isz))
             ELSE NotCustom(rv.data)
        ELSE IF t.Kind = "ptr" /\ Len(rv.data) = 0
        THEN IF ~rv.canAddr
             THEN [custom |-> TRUE, ret |-> RetPanic, data |-> rv.data, calls |-> <<>>]
             ELSE Through(RunDecoder(t.Elem[1], qm, Zero(t.Elem[1]), isz))
        ELSE IF t.Kind = "ptr"
        THEN Through(RunDecoder(t.Elem[1], qm, rv.data[1], isz))
        ELSE Direct(RunDecoder(t, qm, rv.data, isz))

\* getValues that lets a declared default override the map's list
getValuesDefaultFirst(qm, f) ==
    LET Or(values) == IF Len(values) = 0 THEN Lookup(qm, getName(f)) ELSE values
    IN  Or(getDefaultTags(f))

\* getValues that also falls back when the list is the single empty string
getValuesBlankAsAbsent(qm, f) ==
    LET Or(values) ==
            IF Len(values) = 0 \/ values = <<<<>>>> THEN getDefaultTags(f) ELSE values
    IN  Or(Lookup(qm, getName(f)))

\* getValues: the map's list under the field's name, the defaults when it
\* is empty
getValues(qm, f) ==
    LET Or(values) == IF Len(values) = 0 THEN getDefaultTags(f) ELSE values
    IN  Or(Lookup(qm, getName(f)))

\* the bitSize parseField and parseSlice hand to strconv for a kind
BitSize(kind) ==
    CASE kind \in {"int8", "uint8"} -> 8
      [] kind \in {"int16", "uint16"} -> 16
      [] kind \in {"int32", "uint32"} -> 32
      [] kind \in {"int", "uint", "int64", "uint64"} -> 64

FieldOk(data) == [err |-> NilErr, data |-> data]
FieldErr(fn, s, e, data) == [err |-> NumError(fn, s, e), data |-> data]

\* The element loop of parseSlice: the parsed elements, or the first error.
\* []int is parsed with Atoi, []uint with ParseUint(.., 64) and uint(v).
RECURSIVE parseElems(_, _, _, _, _)
parseElems(kind, values, i, parsed, isz) ==
    LET Elem1(fn, err, v) ==
            IF err # NoErr THEN [err |-> NumError(fn, values[i], err), elems |-> <<>>]
            ELSE parseElems(kind, values, i + 1, Append(parsed, v), isz)
        Int1(fn, r) == Elem1(fn, r.err, r.v)
        Uint1(r) == Elem1("ParseUint", r.err, SetUint(kind, MkInt(FALSE, r.mag), isz))
    IN  IF i > Len(values) THEN [err |-> NilErr, elems |-> parsed]
        ELSE IF kind = "bool" THEN Int1("ParseBool", ParseBool(values[i]))
        ELSE IF kind = "int" THEN Int1("Atoi", Atoi(values[i], isz))
        ELSE IF kind \in IntKinds THEN Int1("ParseInt", ParseInt(values[i], BitSize(kind)))
        ELSE Uint1(ParseUint(values[i], BitSize(kind)))

\* parseSlice: a []string field takes the map's list itself; the other
\* element kinds are parsed into a fresh slice that is set when all parsed
parseSlice(t, data, values, isz) ==
    LET kind == t.Elem[1].Kind
        Set(r) ==
            IF r.err # NilErr THEN [err |-> r.err, data |-> data]
            ELSE FieldOk([isNil |-> FALSE, elems |-> r.elems, shared |-> FALSE])
    IN  IF kind = "string"
        THEN FieldOk([isNil |-> FALSE, elems |-> values, shared |-> TRUE])
        ELSE IF kind \in {"bool"} \cup IntKinds \cup UintKinds
        THEN Set(parseElems(kind, values, 1, <<>>, isz))
        ELSE FieldOk(data)

\* parseField that resets a field of a kind it does not coerce
RECURSIVE parseFieldResetOthers(_, _, _, _, _)
parseFieldResetOthers(qm, t, data, values, isz) ==
    LET Set(fn, err, v) ==
            IF err # NoErr THEN FieldErr(fn, values[1], err, data) ELSE FieldOk(v)
        SetBool(r) == Set("ParseBool", r.err, r.v)
        SetI(r) == Set("ParseInt", r.err, SetInt(t.Kind, r.v, isz))
        SetU(r) == Set("ParseUint", r.err, SetUint(t.Kind, MkInt(FALSE, r.mag), isz))
        SetPtr(r) ==
            IF r.err # NilErr THEN [err |-> r.err, data |-> data] ELSE FieldOk(<<r.data>>)
    IN  CASE t.Kind = "string" -> FieldOk(values[1])
          [] t.Kind = "bool" -> SetBool(ParseBool(values[1]))
          [] t.Kind \in IntKinds -> SetI(ParseInt(values[1], BitSize(t.Kind)))
          [] t.Kind \in UintKinds -> SetU(ParseUint(values[1], BitSize(t.Kind)))
          [] t.Kind = "slice" -> parseSlice(t, data, values, isz)
          [] t.Kind = "ptr" ->
                SetPtr(parseFieldResetOthers(qm, t.Elem[1], Zero(t.Elem[1]), values, isz))
          [] OTHER -> FieldOk(Zero(t))

\* parseField: coerce values into a field of type t holding data
RECURSIVE parseField(_, _, _, _, _)
parseField(qm, t, data, values, isz) ==
    LET Set(fn, err, v) ==
            IF err # NoErr THEN FieldErr(fn, values[1], err, data) ELSE FieldOk(v)
        SetBool(r) == Set("ParseBool", r.err, r.v)
        SetI(r) == Set("ParseInt", r.err, SetInt(t.Kind, r.v, isz))
        SetU(r) == Set("ParseUint", r.err, SetUint(t.Kind, MkInt(FALSE, r.mag), isz))
        SetPtr(r) ==
            IF r.err # NilErr THEN [err |-> r.err, data |-> data] ELSE FieldOk(<<r.data>>)
    IN  CASE t.Kind = "string" -> FieldOk(values[1])
          [] t.Kind = "bool" -> SetBool(ParseBool(values[1]))
          [] t.Kind \in IntKinds -> SetI(ParseInt(values[1], BitSize(t.Kind)))
          [] t.Kind \in UintKinds -> SetU(ParseUint(values[1], BitSize(t.Kind)))
          [] t.Kind = "slice" -> parseSlice(t, data, values, isz)
          [] t.Kind = "ptr" ->
                SetPtr(parseField(qm, t.Elem[1], Zero(t.Elem[1]), values, isz))
          [] OTHER -> FieldOk(data)

\* The refactored parseField: the same coercions through setField, but a
\* pointer field is set to the new referent before the referent is parsed
RECURSIVE parseFieldRefactored(_, _, _, _, _)
parseFieldRefactored(qm, t, data, values, isz) ==
    LET Attached(r) == [err |-> r.err, data |-> <<r.data>>]
    IN  IF t.Kind = "ptr"
        THEN Attached(parseFieldRefactored(qm, t.Elem[1], Zero(t.Elem[1]), values, isz))
        ELSE parseField(qm, t, data, values, isz)

\* the parseField of this build
parseFieldBuilt(qm, t, data, values, isz) ==
    IF refactored THEN parseFieldRefactored(qm, t, data, values, isz)
    ELSE parseField(qm, t, data, values, isz)

\* parseStructStep that records a coercion error under the field's name
parseStructStepTagging(qm, rv, i, acc, isz) ==
    LET f == rv.typ.Fields[i]
        Parsed(r) ==
            [errs  |-> IF r.err = NilErr THEN acc.errs
                       ELSE Append(acc.errs, [r.err EXCEPT !.Func = f.Name]),
             data  |-> [acc.data EXCEPT ![i] = r.data],
             calls |-> acc.calls,
             q     |-> acc.q]
        Coerce(values) ==
            IF Len(values) = 0 THEN acc
            ELSE Parsed(parseFieldBuilt(acc.q, f.Type, acc.data[i], values, isz))
        Custom(c) ==
            IF c.custom
            THEN [errs  |-> acc.errs \o c.ret.errs,
                  data  |-> [acc.data EXCEPT ![i] = c.data],
                  calls |-> acc.calls \o c.calls,
                  q     |-> acc.q]
            ELSE Coerce(getValues(acc.q, f))
    IN  IF ~IsExported(f) \/ ~rv.canAddr THEN acc
        ELSE Custom(decodeCustom(acc.q, RV(f.Type, acc.data[i], rv.canAddr), isz))

\* parseStructStep that removes from the map the entry it read for a field
parseStructStepConsuming(qm, rv, i, acc, isz) ==
    LET f == rv.typ.Fields[i]
        Parsed(r) ==
            [errs  |-> IF r.err = NilErr THEN acc.errs ELSE Append(acc.errs, r.err),
             data  |-> [acc.data EXCEPT ![i] = r.data],
             calls |-> acc.calls,
             q     |-> [k \in DOMAIN acc.q \ {getName(f)} |-> acc.q[k]]]
        Coerce(values) ==
            IF Len(values) = 0 THEN acc
            ELSE Parsed(parseFieldBuilt(acc.q, f.Type, acc.data[i], values, isz))
        Custom(c) ==
            IF c.custom
            THEN [errs  |-> acc.errs \o c.ret.errs,
                  data  |-> [acc.data EXCEPT ![i] = c.data],
                  calls |-> acc.calls \o c.calls,
                  q     |-> acc.q]
            ELSE Coerce(getValues(acc.q, f))
    IN  IF ~IsExported(f) \/ ~rv.canAddr THEN acc
        ELSE Custom(decodeCustom(acc.q, RV(f.Type, acc.data[i], rv.canAddr), isz))

\* One iteration of parseStruct's loop, on field i: acc holds the errors
\* collected so far, the struct's data, the custom calls made, and the map
\* q refers to as the iterations before left it.
parseStructStep(qm, rv, i, acc, isz) ==
    LET f == rv.typ.Fields[i]
        Parsed(r) ==
            [errs  |-> IF r.err = NilErr THEN acc.errs ELSE Append(acc.errs, r.err),
             data  |-> [acc.data EXCEPT ![i] = r.data],
             calls |-> acc.calls,
             q     |-> acc.q]
        Coerce(values) ==
            IF Len(values) = 0 THEN acc
            ELSE Parsed(parseFieldBuilt(acc.q, f.Type, acc.data[i], values, isz))
        Custom(c) ==
            IF c.custom
            THEN [errs  |-> acc.errs \o c.ret.errs,
                  data  |-> [acc.data EXCEPT ![i] = c.data],
                  calls |-> acc.calls \o c.calls,
                  q     |-> acc.q]
            ELSE Coerce(getValues(acc.q, f))
    IN  IF ~IsExported(f) \/ ~rv.canAddr THEN acc
        ELSE Custom(decodeCustom(acc.q, RV(f.Type, acc.data[i], rv.canAddr), isz))

\* parseStruct's loop, were it to stop at the first field that fails
RECURSIVE parseStructLoopFailFast(_, _, _, _, _)
parseStructLoopFailFast(qm, rv, i, acc, isz) ==
    IF i > Len(rv.typ.Fields) \/ acc.errs # <<>> THEN acc
    ELSE parseStructLoopFailFast(qm, rv, i + 1, parseStructStep(qm, rv, i, acc, isz), isz)

\* parseStruct's loop from field i on
RECURSIVE parseStructLoop(_, _, _, _, _)
parseStructLoop(qm, rv, i, acc, isz) ==
    IF i > Len(rv.typ.Fields) THEN acc
    ELSE parseStructLoop(qm, rv, i + 1, parseStructStep(qm, rv, i, acc, isz), isz)

\* parseStruct: every field in declaration order, the errors joined
parseStruct(qm, rv, isz) ==
    LET Joined(acc) ==
            [ret |-> Join(acc.errs), data |-> acc.data, calls |-> acc.calls, q |-> acc.q]
    IN  Joined(parseStructLoop(qm, rv, 1,
                               [errs |-> <<>>, data |-> rv.data, calls |-> <<>>, q |-> qm],
                               isz))

Unsupported(kind) == [kind |-> "error", errs |-> <<NumError("unsupported type", <<>>, kind)>>]

\* parse: a Decoder decodes itself, a pointer is followed, a struct is
\* walked, anything else is a type error.  decodeCustom starts with
\* val.Type(), which panics on the zero Value.  The result's q is the map
\* as the call leaves it; the repository's DecodeQuery methods only read it.
RECURSIVE parse(_, _, _)
parse(qm, rv, isz) ==
    LET Followed(r) ==
            [ret   |-> r.ret,
             data  |-> IF Len(rv.data) = 0 THEN rv.data ELSE <<r.data>>,
             calls |-> r.calls,
             q     |-> r.q]
        Dispatch(c) ==
            IF c.custom THEN [ret |-> c.ret, data |-> c.data, calls |-> c.calls, q |-> qm]
            ELSE IF rv.typ.Kind = "ptr" THEN Followed(parse(qm, Elem(rv), isz))
            ELSE IF rv.typ.Kind = "struct" THEN parseStruct(qm, rv, isz)
            ELSE [ret |-> Unsupported(rv.typ.Kind), data |-> rv.data, calls |-> <<>>,
                  q |-> qm]
    IN  IF ~rv.valid THEN [ret |-> RetPanic, data |-> rv.data, calls |-> <<>>, q |-> qm]
        ELSE Dispatch(decodeCustom(qm, rv, isz))

\* Decode without its check for a nil map
DecodeNoNilCheck(qq, rv, isz) == parse(qq.m, rv, isz)

\* Decode(q, obj): nothing happens for a nil map
Decode(qq, rv, isz) ==
    IF qq.isNil THEN [ret |-> RetNil, data |-> rv.data, calls |-> <<>>, q |-> qq.m]
    ELSE parse(qq.m, rv, isz)

(***************************************************************************)
(* Encode                                                                  *)
(***************************************************************************)
\* reflect.Type.Implements(encoderType)
ImplementsEncoder(t) ==
    IF t.Kind = "ptr"
    THEN t.Elem[1].Kind # "ptr" /\ t.Elem[1].Enc \in {"ptr", "value"}
    ELSE t.Enc = "value"

\* reflect.Value.IsZero
IsZero(rv) == rv.data = Zero(rv.typ)

\* The EncodeValues methods of the repository's types: customEncoderStruct
\* and customValueEncoderStruct return {"custom": [s.String]} and no error.
\* strictEncoderStruct is an Encoder that uses the error result: it returns
\* the same map, and an error when its String is empty.
EncodeValues(t, data) ==
    [m   |-> (sCustom :> <<data[1]>>),
     err |-> IF t.Name = "strictEncoderStruct" /\ data[1] = <<>>
             THEN NumError("EncodeValues", <<>>, "empty") ELSE NilErr]

\* for k, values := range sub { v[k] = append(v[k], values...) }
Merge(v, sub) ==
    [k \in DOMAIN v \cup DOMAIN sub |-> Lookup(v, k) \o Lookup(sub, k)]

EncNotCustom(v) == [custom |-> FALSE, ret |-> RetNil, v |-> v, calls |-> <<>>]

RunEncoder(v, t, data) ==
    LET Ran(r) ==
            [custom |-> TRUE, ret |-> RetErr(r.err), v |-> Merge(v, r.m),
             calls |-> <<CallOf("EncodeValues", t, data)>>]
    IN  Ran(EncodeValues(t, data))

\* encodeCustom that does not look at the pointer's method set
encodeCustomValueOnly(v, rv) ==
    LET t == rv.typ
    IN  IF ~ImplementsEncoder(t) THEN EncNotCustom(v)
        ELSE IF t.Kind = "ptr"
        THEN IF Len(rv.data) = 0
             THEN [custom |-> TRUE, ret |-> RetPanic, v |-> v, calls |-> <<>>]
             ELSE RunEncoder(v, t.Elem[1], rv.data[1])
        ELSE RunEncoder(v, t, rv.data)

\* encodeCustom: whether val (or a pointer to a copy of it) is an Encoder,
\* and if so its map merged into v.  Both EncodeValues methods read the
\* receiver's String, which panics through a nil pointer.
encodeCustom(v, rv) ==
    LET t == rv.typ
    IN  IF ~ImplementsEncoder(t)
        THEN IF ImplementsEncoder(PtrTo(t)) THEN RunEncoder(v, t, rv.data)
             ELSE EncNotCustom(v)
        ELSE IF t.Kind = "ptr"
        THEN IF Len(rv.data) = 0
             THEN [custom |-> TRUE, ret |-> RetPanic, v |-> v, calls |-> <<>>]
             ELSE RunEncoder(v, t.Elem[1], rv.data[1])
        ELSE RunEncoder(v, t, rv.data)

\* getEncodingName that skips every field holding its zero value
getEncodingNameOmitZero(f, rv) ==
    LET Named(names) ==
            IF names[1] = <<"-">> \/ IsZero(rv) THEN [key |-> <<>>, skip |-> TRUE]
            ELSE [key |-> names[1], skip |-> FALSE]
    IN  Named(getNameTags(f))

\* getEncodingName: the key of a field and whether to skip it
getEncodingName(f, rv) ==
    LET Named(names) ==
            IF names[1] = <<"-">> THEN [key |-> <<>>, skip |-> TRUE]
            ELSE IF Len(names) > 1
                    /\ names[2] = <<"o", "m", "i", "t", "e", "m", "p", "t", "y">>
                    /\ IsZero(rv)
            THEN [key |-> <<>>, skip |-> TRUE]
            ELSE [key |-> names[1], skip |-> FALSE]
    IN  Named(getNameTags(f))

\* encodeString, encodeBool, encodeInt, encodeUint by element kind
encodeScalar(kind, data) ==
    CASE kind = "string" -> data
      [] kind = "bool" -> FormatBool(data)
      [] kind \in IntKinds -> FormatInt(data)
      [] kind \in UintKinds -> FormatUint(data)

\* encodeSlice / addSlice: one v.Add per element, in order
encodeSlice(v, rv, key) ==
    LET kind == rv.typ.Elem[1].Kind
    IN  IF kind \in {"string", "bool"} \cup IntKinds \cup UintKinds
        THEN IF Len(rv.data.elems) = 0 THEN v
             ELSE AddAll(v, key, [i \in 1..Len(rv.data.elems) |->
                                     encodeScalar(kind, rv.data.elems[i])])
        ELSE v

\* the exported scalar fields of a record value added to v under their own
\* names, from field i on
RECURSIVE FlattenFrom(_, _, _)
FlattenFrom(v, rv, i) ==
    IF i > Len(rv.typ.Fields) THEN v
    ELSE IF IsExported(rv.typ.Fields[i]) /\ rv.typ.Fields[i].Type.Kind \in ScalarKinds
    THEN FlattenFrom(AddAll(v, getNameTags(rv.typ.Fields[i])[1],
                            <<encodeScalar(rv.typ.Fields[i].Type.Kind, rv.data[i])>>),
                     rv, i + 1)
    ELSE FlattenFrom(v, rv, i + 1)

\* encodeField that flattens a field of record type into the same map
RECURSIVE encodeFieldFlattening(_, _, _)
encodeFieldFlattening(v, rv, key) ==
    IF ~rv.valid THEN v
    ELSE IF rv.typ.Kind \in {"string", "bool"} \cup IntKinds \cup UintKinds
    THEN AddAll(v, key, <<encodeScalar(rv.typ.Kind, rv.data)>>)
    ELSE IF rv.typ.Kind = "ptr" THEN encodeFieldFlattening(v, Elem(rv), key)
    ELSE IF rv.typ.Kind = "slice" THEN encodeSlice(v, rv, key)
    ELSE IF rv.typ.Kind = "struct" THEN FlattenFrom(v, rv, 1)
    ELSE v

\* encodeField that takes a nil pointer for a pointer to the zero value
RECURSIVE encodeFieldNilAsZero(_, _, _)
encodeFieldNilAsZero(v, rv, key) ==
    IF rv.typ.Kind \in {"string", "bool"} \cup IntKinds \cup UintKinds
    THEN AddAll(v, key, <<encodeScalar(rv.typ.Kind, rv.data)>>)
    ELSE IF rv.typ.Kind = "ptr"
    THEN encodeFieldNilAsZero(v, RV(rv.typ.Elem[1],
                                    IF Len(rv.data) = 0 THEN Zero(rv.typ.Elem[1])
                                    ELSE rv.data[1], TRUE), key)
    ELSE IF rv.typ.Kind = "slice" THEN encodeSlice(v, rv, key)
    ELSE v

\* encodeField: the field's text added under key; a pointer is followed
\* (the zero Value of a nil pointer has no kind), other kinds are ignored
RECURSIVE encodeField(_, _, _)
encodeField(v, rv, key) ==
    IF ~rv.valid THEN v
    ELSE IF rv.typ.Kind \in {"string", "bool"} \cup IntKinds \cup UintKinds
    THEN AddAll(v, key, <<encodeScalar(rv.typ.Kind, rv.data)>>)
    ELSE IF rv.typ.Kind = "ptr" THEN encodeField(v, Elem(rv), key)
    ELSE IF rv.typ.Kind = "slice" THEN encodeSlice(v, rv, key)
    ELSE v

\* encodeStruct's loop, were it to go on after a field that is an Encoder
RECURSIVE encodeStructLoopContinue(_, _, _, _)
encodeStructLoopContinue(v, rv, i, cs) ==
    LET f  == rv.typ.Fields[i]
        fv == RV(f.Type, rv.data[i], rv.canAddr)
        Add(n) ==
            IF n.skip THEN encodeStructLoopContinue(v, rv, i + 1, cs)
            ELSE encodeStructLoopContinue(encodeField(v, fv, n.key), rv, i + 1, cs)
        Custom(c) ==
            IF c.custom THEN encodeStructLoopContinue(c.v, rv, i + 1, cs \o c.calls)
            ELSE Add(getEncodingName(f, fv))
    IN  IF i > Len(rv.typ.Fields) THEN [ret |-> RetNil, v |-> v, calls |-> cs]
        ELSE IF ~IsExported(f) THEN encodeStructLoopContinue(v, rv, i + 1, cs)
        ELSE Custom(encodeCustom(v, fv))

\* encodeStruct's loop from field i on: a field that is an Encoder ends it
RECURSIVE encodeStructLoop(_, _, _, _)
encodeStructLoop(v, rv, i, cs) ==
    LET f  == rv.typ.Fields[i]
        fv == RV(f.Type, rv.data[i], rv.canAddr)
        Add(n) ==
            IF n.skip THEN encodeStructLoop(v, rv, i + 1, cs)
            ELSE encodeStructLoop(encodeField(v, fv, n.key), rv, i + 1, cs)
        Custom(c) ==
            IF c.custom THEN [ret |-> c.ret, v |-> c.v, calls |-> cs \o c.calls]
            ELSE Add(getEncodingName(f, fv))
    IN  IF i > Len(rv.typ.Fields) THEN [ret |-> RetNil, v |-> v, calls |-> cs]
        ELSE IF ~IsExported(f) THEN encodeStructLoop(v, rv, i + 1, cs)
        ELSE Custom(encodeCustom(v, fv))

encodeStruct(v, rv) == encodeStructLoop(v, rv, 1, <<>>)

\* encode: an Encoder encodes itself, a pointer is followed, a struct is
\* walked, anything else is a type error.  encodeCustom starts with
\* val.Type(), which panics on the zero Value.
RECURSIVE encode(_, _)
encode(v, rv) ==
    LET Dispatch(c) ==
            IF c.custom THEN [ret |-> c.ret, v |-> c.v, calls |-> c.calls]
            ELSE IF rv.typ.Kind = "ptr" THEN encode(v, Elem(rv))
            ELSE IF rv.typ.Kind = "struct" THEN encodeStruct(v, rv)
            ELSE [ret |-> Unsupported(rv.typ.Name), v |-> v, calls |-> <<>>]
    IN  IF ~rv.valid THEN [ret |-> RetPanic, v |-> v, calls |-> <<>>]
        ELSE Dispatch(encodeCustom(v, rv))

\* Encode(obj): a fresh map and encode's error
Encode(rv) == encode(EmptyMap, rv)

(***************************************************************************)
(* The callers' objects and maps                                           *)
(***************************************************************************)
MaxLen == 2   \* longest list of the multi-valued entries of a map

\* testStruct, one field at a time, and two fields of different kinds
testStruct(k) == Struct("testStruct", <<Field(<<"V">>, Scalar(k), NoTag)>>, "none", "none")

pairStruct(k1, k2) ==
    Struct("testStruct", <<Field(<<"A">>, Scalar(k1), NoTag),
                           Field(<<"B">>, Scalar(k2), NoTag)>>, "none", "none")

nInt == <<"I", "n", "t">>
nField == <<"F", "i", "e", "l", "d">>
nPageSize == <<"P", "a", "g", "e", "S", "i", "z", "e">>
nCustom == <<"C", "u", "s", "t", "o", "m">>
nString == <<"S", "t", "r", "i", "n", "g">>

Tagged(query, default) == [query |-> query, default |-> default]

\* namedStruct: Int int `query:"N"`
namedStruct == Struct("namedStruct", <<Field(nInt, Scalar("int"), Tagged(<<<<"N">>>>, <<>>))>>,
                      "none", "none")

\* the README's QueryParams: PageSize uint32 `default:"25"`
defaultedStruct ==
    Struct("defaultedStruct",
           <<Field(nPageSize, Scalar("uint32"), Tagged(<<>>, <<<<"2", "5">>>>))>>,
           "none", "none")

\* a default that does not coerce: Int int8 `default:"300"`
badDefaultStruct ==
    Struct("defaultedStruct",
           <<Field(nInt, Scalar("int8"), Tagged(<<>>, <<<<"3", "0", "0">>>>))>>,
           "none", "none")

\* ignoreStruct: Field string `query:"-"`, without and with a default
ignoreStruct(default) ==
    Struct("ignoreStruct", <<Field(nField, Scalar("string"), Tagged(<<<<"-">>>>, default))>>,
           "none", "none")

sOmit == <<"f", ",", "o", "m", "i", "t", "e", "m", "p", "t", "y">>
sOmit3 == <<"f", ",", "x", ",", "o", "m", "i", "t", "e", "m", "p", "t", "y">>

\* stringStruct: a field of kind k tagged `query:"f,omitempty"` (or with
\* omitempty as the third token)
omitStruct(k, tag) ==
    Struct("stringStruct", <<Field(nField, Scalar(k), Tagged(<<tag>>, <<>>))>>,
           "none", "none")

\* customStruct implements Decoder on its pointer
customStruct == Struct("customStruct", <<Field(nInt, Scalar("int"), NoTag)>>, "ptr", "none")

customStructFieldStruct ==
    Struct("customStructFieldStruct", <<Field(nCustom, customStruct, NoTag)>>, "none", "none")

pointedCustomStructFieldStruct ==
    Struct("pointedCustomStructFieldStruct", <<Field(nCustom, PtrTo(customStruct), NoTag)>>,
           "none", "none")

\* type customDecoderType string, a Decoder on its pointer
customDecoderType ==
    [Name |-> "customDecoderType", Kind |-> "string", Elem |-> <<>>, Fields |-> <<>>,
     Dec |-> "ptr", Enc |-> "none"]

\* nonExportedStruct: int int `query:"int"`
nonExportedStruct ==
    Struct("nonExportedStruct",
           <<Field(<<"i", "n", "t">>, Scalar("int"), Tagged(<<<<"i", "n", "t">>>>, <<>>))>>,
           "none", "none")

\* pointerTestStruct and slicesStruct, one field at a time
pointerTestStruct(k) ==
    Struct("pointerTestStruct", <<Field(<<"V">>, PtrTo(Scalar(k)), NoTag)>>, "none", "none")

slicesStruct(k) ==
    Struct("slicesStruct", <<Field(<<"V">>, SliceOf(Scalar(k)), NoTag)>>, "none", "none")

\* customEncoderStruct implements Encoder on its pointer,
\* customValueEncoderStruct on its value
customEncoderStruct ==
    Struct("customEncoderStruct", <<Field(nString, Scalar("string"), NoTag)>>, "none", "ptr")

customValueEncoderStruct ==
    Struct("customValueEncoderStruct", <<Field(nString, Scalar("string"), NoTag)>>,
           "none", "value")

nestedCustomEncoderStruct ==
    Struct("nestedCustomEncoderStruct", <<Field(nCustom, customEncoderStruct, NoTag)>>,
           "none", "none")

\* an Encoder, on its value, whose EncodeValues can fail
strictEncoderStruct ==
    Struct("strictEncoderStruct", <<Field(nString, Scalar("string"), NoTag)>>, "none", "value")

\* an Encoder field between two plain fields
midCustomEncoderStruct ==
    Struct("midCustomEncoderStruct",
           <<Field(<<"A">>, Scalar("string"), NoTag),
             Field(nCustom, strictEncoderStruct, NoTag),
             Field(<<"B">>, Scalar("string"), NoTag)>>, "none", "none")

\* a slice field followed by a scalar field
sliceThenStruct ==
    Struct("slicesStruct", <<Field(<<"A">>, SliceOf(Scalar("int8")), NoTag),
                             Field(<<"B">>, Scalar("uint16"), NoTag)>>, "none", "none")

\* two fields under one key: A string `query:"k"`, B []string `query:"k"`
sameKeyStruct ==
    Struct("sameKeyStruct",
           <<Field(<<"A">>, Scalar("string"), Tagged(<<<<"k">>>>, <<>>)),
             Field(<<"B">>, SliceOf(Scalar("string")), Tagged(<<<<"k">>>>, <<>>))>>,
           "none", "none")

\* an unexported field with a name tag and a default, then an exported one
hiddenStruct ==
    Struct("nonExportedStruct",
           <<Field(<<"a">>, Scalar("string"), Tagged(<<<<"k">>>>, <<<<"d">>>>)),
             Field(<<"B">>, Scalar("string"), NoTag)>>, "none", "none")

\* a field whose type is a record that is neither Decoder nor Encoder
nestedStruct ==
    Struct("nestedStruct",
           <<Field(<<"N">>, testStruct("string"), NoTag),
             Field(<<"B">>, Scalar("string"), NoTag)>>, "none", "none")

nestedPointerCustomEncoderStruct ==
    Struct("nestedPointerCustomEncoderStruct",
           <<Field(nCustom, PtrTo(customEncoderStruct), NoTag)>>, "none", "none")

\* a field that is an Encoder and is tagged `query:"-"`
ignoreCustomStruct ==
    Struct("ignoreCustomStruct",
           <<Field(nCustom, customEncoderStruct, Tagged(<<<<"-">>>>, <<>>))>>, "none", "none")

\* a Decoder field, a nil-able pointer, with a name tag and a default, then
\* a field named by that tag: Custom *customStruct `query:"v" default:"5"`,
\* V string
taggedCustomStructFieldStruct ==
    Struct("taggedCustomStructFieldStruct",
           <<Field(nCustom, PtrTo(customStruct), Tagged(<<<<"v">>>>, <<<<"5">>>>)),
             Field(<<"V">>, Scalar("string"), NoTag)>>, "none", "none")

\* nonImplementingStruct, its field of each kind Decode has no coercion
\* for, with a default: V T `default:"5"`
UnsupportedTypes == {testStruct("string"), MapType, ChanType, SliceOf(testStruct("string"))}

unsupportedStruct(t) ==
    Struct("nonImplementingStruct", <<Field(<<"V">>, t, Tagged(<<>>, <<<<"5">>>>))>>,
           "none", "none")

\* a pointer field and a slice field that declare defaults:
\* V *int8 `default:"5"` and V []int8 `default:"5,6"`
defaultedPointerStruct ==
    Struct("defaultedStruct",
           <<Field(<<"V">>, PtrTo(Scalar("int8")), Tagged(<<>>, <<<<"5">>>>))>>,
           "none", "none")

defaultedSliceStruct ==
    Struct("defaultedStruct",
           <<Field(<<"V">>, SliceOf(Scalar("int8")), Tagged(<<>>, <<<<"5", ",", "6">>>>))>>,
           "none", "none")

\* a boolean with a default: V bool `default:"true"`
defaultedBoolStruct ==
    Struct("defaultedStruct",
           <<Field(<<"V">>, Scalar("bool"), Tagged(<<>>, <<<<"t", "r", "u", "e">>>>))>>,
           "none", "none")

\* The record types callers pass by pointer
RecordTypes ==
    {testStruct(k) : k \in ScalarKinds}
    \cup {pairStruct("int8", "uint16"), pairStruct("bool", "string"),
          pairStruct("int8", "int8")}
    \cup {namedStruct, defaultedStruct, badDefaultStruct,
          ignoreStruct(<<>>), ignoreStruct(<<<<"d">>>>),
          omitStruct("string", sOmit), omitStruct("int", sOmit),
          omitStruct("string", sOmit3),
          customStruct, customStructFieldStruct, pointedCustomStructFieldStruct,
          nonExportedStruct, pointerTestStruct("int8"), slicesStruct("int"),
          slicesStruct("string"), slicesStruct("uint"), slicesStruct("bool"),
          sliceThenStruct, sameKeyStruct, hiddenStruct, nestedStruct,
          customEncoderStruct, customValueEncoderStruct, nestedCustomEncoderStruct,
          strictEncoderStruct, midCustomEncoderStruct, nestedPointerCustomEncoderStruct,
          ignoreCustomStruct, taggedCustomStructFieldStruct,
          defaultedPointerStruct, defaultedSliceStruct, defaultedBoolStruct}
    \cup {unsupportedStruct(t) : t \in UnsupportedTypes}

\* The types callers also pass in the other shapes: by value, as a nil
\* pointer, as a pointer to a pointer
ShapeTypes ==
    {testStruct("int8"), customStruct, customDecoderType, Scalar("int"),
     customEncoderStruct, customValueEncoderStruct, strictEncoderStruct}

\* a populated value of a type
RECURSIVE Sample(_)
Sample(t) ==
    CASE t.Kind = "string" -> <<"a">>
      [] t.Kind = "bool" -> TRUE
      [] t.Kind \in IntKinds \cup UintKinds -> Small(7)
      [] t.Kind = "ptr" -> <<Sample(t.Elem[1])>>
      [] t.Kind = "slice" ->
            [isNil |-> FALSE, elems |-> <<Sample(t.Elem[1]), Sample(t.Elem[1])>>,
             shared |-> FALSE]
      [] t.Kind = "struct" -> [i \in 1..Len(t.Fields) |-> Sample(t.Fields[i].Type)]
      [] t.Kind \in {"map", "chan"} -> <<"made">>

Shapes == {"nil", "value", "ptr", "nilptr", "ptrptr"}

\* the data of the obj argument for an object of type t holding d
Layout(sh, d) ==
    CASE sh = "value" -> d
      [] sh = "ptr" -> <<d>>
      [] sh = "ptrptr" -> <<<<d>>>>
      [] OTHER -> <<>>

\* the dynamic type of the obj argument
ObjType(sh, t) ==
    CASE sh = "value" -> t
      [] sh = "ptr" -> PtrTo(t)
      [] sh = "nilptr" -> PtrTo(t)
      [] sh = "ptrptr" -> PtrTo(PtrTo(t))
      [] OTHER -> Scalar("invalid")

\* reflect.ValueOf(obj): not addressable; the zero Value for a nil interface
ValueOf(sh, t, data) == IF sh = "nil" THEN Invalid ELSE RV(ObjType(sh, t), data, FALSE)

\* the data of the record behind the obj argument, when there is one
Rec(sh, data) ==
    CASE sh = "value" -> data
      [] sh = "ptr" -> data[1]
      [] sh = "ptrptr" -> data[1][1]

HasRec(sh, data) == sh \in {"value", "ptr", "ptrptr"}

\* the kinds of the scalars a type holds, through pointers, slices, fields
RECURSIVE KindsOf(_)
KindsOf(t) ==
    CASE t.Kind \in {"ptr", "slice"} -> KindsOf(t.Elem[1])
      [] t.Kind = "struct" -> UNION {KindsOf(t.Fields[i].Type) : i \in 1..Len(t.Fields)}
      [] OTHER -> {t.Kind}

\* whether DecodeQuery is declared in a type
RECURSIVE HasDecoder(_)
HasDecoder(t) ==
    \/ t.Dec # "none"
    \/ t.Kind \in {"ptr", "slice"} /\ HasDecoder(t.Elem[1])
    \/ t.Kind = "struct" /\ \E i \in 1..Len(t.Fields) : HasDecoder(t.Fields[i].Type)

\* whether a field of the type is a pointer
HasPtrField(t) ==
    t.Kind = "struct" /\ \E i \in 1..Len(t.Fields) : t.Fields[i].Type.Kind = "ptr"

LowerName(f) == [i \in 1..Len(f.Name) |-> IF i = 1 THEN ToLower(f.Name[1]) ELSE f.Name[i]]

\* The keys a map for type t may hold: each field's external name, the name
\* it would have without its tag, that name in lower case throughout, and
\* "custom" where a DecodeQuery reads it
KeysOf(t) ==
    UNION {{getName(t.Fields[i]), LowerName(t.Fields[i]), AllLower(t.Fields[i].Name)} :
              i \in 1..Len(t.Fields)}
    \cup (IF HasDecoder(t) \/ t.Kind # "struct" THEN {sCustom} ELSE {})

Generic ==
    {<<>>,
     <<"0">>,
     <<"1">>,
     <<"-", "1">>,
     <<"+", "5">>,
     <<"0", "0", "7">>,
     <<"-", "0">>,
     <<"t", "r", "u", "e">>,
     <<"T">>,
     <<"x">>}

\* the values around the limits of each integer width
Limits(kind) ==
    CASE kind = "int8" ->
    {<<"1", "2", "7">>,
     <<"1", "2", "8">>,
     <<"-", "1", "2", "8">>,
     <<"-", "1", "2", "9">>}
      [] kind = "uint8" ->
    {<<"2", "5", "5">>,
     <<"2", "5", "6">>}
      [] kind = "int16" ->
    {<<"3", "2", "7", "6", "7">>,
     <<"3", "2", "7", "6", "8">>,
     <<"-", "3", "2", "7", "6", "8">>,
     <<"-", "3", "2", "7", "6", "9">>}
      [] kind = "uint16" ->
    {<<"6", "5", "5", "3", "5">>,
     <<"6", "5", "5", "3", "6">>}
      [] kind = "int32" ->
    {<<"2", "1", "4", "7", "4", "8", "3", "6", "4", "7">>,
     <<"2", "1", "4", "7", "4", "8", "3", "6", "4", "8">>,
     <<"-", "2", "1", "4", "7", "4", "8", "3", "6", "4", "8">>,
     <<"-", "2", "1", "4", "7", "4", "8", "3", "6", "4", "9">>}
      [] kind = "uint32" ->
    {<<"4", "2", "9", "4", "9", "6", "7", "2", "9", "5">>,
     <<"4", "2", "9", "4", "9", "6", "7", "2", "9", "6">>}
      [] kind = "int64" ->
    {<<"9", "2", "2", "3", "3", "7", "2", "0", "3", "6", "8", "5", "4", "7", "7", "5", "8", "0", "7">>,
     <<"9", "2", "2", "3", "3", "7", "2", "0", "3", "6", "8", "5", "4", "7", "7", "5", "8", "0", "8">>,
     <<"-", "9", "2", "2", "3", "3", "7", "2", "0", "3", "6", "8", "5", "4", "7", "7", "5", "8", "0", "8">>,
     <<"-", "9", "2", "2", "3", "3", "7", "2", "0", "3", "6", "8", "5", "4", "7", "7", "5", "8", "0", "9">>}
      [] kind = "uint64" ->
    {<<"1", "8", "4", "4", "6", "7", "4", "4", "0", "7", "3", "7", "0", "9", "5", "5", "1", "6", "1", "5">>,
     <<"1", "8", "4", "4", "6", "7", "4", "4", "0", "7", "3", "7", "0", "9", "5", "5", "1", "6", "1", "6">>}
      [] kind = "int" ->
    {<<"2", "1", "4", "7", "4", "8", "3", "6", "4", "7">>,
     <<"2", "1", "4", "7", "4", "8", "3", "6", "4", "8">>,
     <<"-", "2", "1", "4", "7", "4", "8", "3", "6", "4", "9">>,
     <<"9", "2", "2", "3", "3", "7", "2", "0", "3", "6", "8", "5", "4", "7", "7", "5", "8", "0", "7">>,
     <<"9", "2", "2", "3", "3", "7", "2", "0", "3", "6", "8", "5", "4", "7", "7", "5", "8", "0", "8">>,
     <<"-", "9", "2", "2", "3", "3", "7", "2", "0", "3", "6", "8", "5", "4", "7", "7", "5", "8", "0", "9">>}
      [] kind = "uint" ->
    {<<"4", "2", "9", "4", "9", "6", "7", "2", "9", "5">>,
     <<"4", "2", "9", "4", "9", "6", "7", "2", "9", "6">>,
     <<"1", "8", "4", "4", "6", "7", "4", "4", "0", "7", "3", "7", "0", "9", "5", "5", "1", "6", "1", "5">>,
     <<"1", "8", "4", "4", "6", "7", "4", "4", "0", "7", "3", "7", "0", "9", "5", "5", "1", "6", "1", "6">>}
      [] OTHER -> {}

StrsFor(t) == Generic \cup UNION {Limits(k) : k \in KindsOf(t)}

RECURSIVE SeqsUpTo(_, _)
SeqsUpTo(S, n) ==
    IF n = 0 THEN {<<>>}
    ELSE LET shorter == SeqsUpTo(S, n - 1)
         IN  shorter \cup {Append(l, x) : l \in shorter, x \in S}

\* The lists a key may hold: none, one string, or several short ones
ValueLists(t) ==
    {<<s>> : s \in StrsFor(t)} \cup SeqsUpTo({<<"1">>, <<"x">>}, MaxLen)
    \cup {<<<<"0">>, <<"1">>>>}

\* The url.Values a caller may pass for type t: nil, or any map over KeysOf
MapsFor(t) ==
    {NilMap} \cup {MakeMap(m) : m \in UNION {[K -> ValueLists(t)] : K \in SUBSET KeysOf(t)}}

(***************************************************************************)
(* The caller: builds an object, may Decode into it once, may Encode it,   *)
(* may decode Encode's map into a new object, may write to what it holds   *)
(***************************************************************************)
Init ==
    /\ \E t \in RecordTypes \cup ShapeTypes, sh \in Shapes, populated \in BOOLEAN :
          /\ sh = "ptr" \/ t \in ShapeTypes
          /\ typ = t
          /\ shape = sh
          /\ obj = Layout(sh, IF populated THEN Sample(t) ELSE Zero(t))
          /\ intSize \in IF {"int", "uint"} \cap KindsOf(t) # {} THEN {32, 64} ELSE {64}
          /\ refactored \in IF HasPtrField(t) THEN BOOLEAN ELSE {FALSE}
    /\ q = NilMap
    /\ qNow = NilMap
    /\ fresh = <<>>
    /\ before = obj
    /\ ret = RetNil
    /\ out = EmptyMap
    /\ calls = <<>>
    /\ op = "new"

\* err := Decode(qq, obj)
DecodeCall ==
    /\ op = "new"
    /\ \E qq \in MapsFor(typ) :
          \E r \in {Decode(qq, ValueOf(shape, typ, obj), intSize)} :
              /\ q' = qq
              /\ qNow' = [isNil |-> qq.isNil, m |-> r.q]
              /\ obj' = r.data
              /\ ret' = r.ret
              /\ calls' = r.calls
    /\ before' = obj
    /\ op' = "Decode"
    /\ UNCHANGED <<intSize, refactored, shape, typ, out, fresh>>

\* values, err := Encode(obj)
EncodeCall ==
    /\ op \in {"new", "Decode"}
    /\ ret.kind # "panic"
    /\ \E r \in {Encode(ValueOf(shape, typ, obj))} :
          /\ out' = r.v
          /\ ret' = r.ret
          /\ calls' = r.calls
    /\ op' = "Encode"
    /\ UNCHANGED <<intSize, refactored, shape, typ, obj, q, qNow, before, fresh>>

\* err := Decode(values, &T{}) with the map Encode returned
DecodeBack ==
    /\ op = "Encode"
    /\ ret.kind = "nil"
    /\ typ.Kind = "struct"
    /\ HasRec(shape, obj)
    /\ \E r \in {Decode(MakeMap(out), ValueOf("ptr", typ, <<Zero(typ)>>), intSize)} :
          /\ fresh' = r.data
          /\ ret' = r.ret
          /\ calls' = r.calls
    /\ op' = "DecodeBack"
    /\ UNCHANGED <<intSize, refactored, shape, typ, obj, q, qNow, before, out>>

\* the []string fields of the decoded record that hold elements
TextSlices ==
    {i \in 1..Len(typ.Fields) :
        /\ IsExported(typ.Fields[i])
        /\ typ.Fields[i].Type.Kind = "slice"
        /\ typ.Fields[i].Type.Elem[1].Kind = "string"
        /\ Len(obj[1][i].elems) > 0}

\* field i's slice is the map's list itself: parseSlice set the field to
\* the list getValues took from the map
Aliases(i) ==
    /\ obj[1][i].shared
    /\ Len(Lookup(qNow.m, getName(typ.Fields[i]))) > 0

sWritten == <<"z">>

\* obj.F[k-1] = "z", after Decode: the write lands in the array the slice
\* refers to
WriteField ==
    /\ op = "Decode"
    /\ shape = "ptr" /\ typ.Kind = "struct" /\ ret.kind # "panic"
    /\ \E i \in TextSlices : \E k \in 1..Len(obj[1][i].elems) :
          /\ obj' = <<[obj[1] EXCEPT ![i].elems[k] = sWritten]>>
          /\ qNow' = IF Aliases(i)
                     THEN [qNow EXCEPT !.m[getName(typ.Fields[i])][k] = sWritten]
                     ELSE qNow
    /\ before' = obj
    /\ op' = "WriteField"
    /\ UNCHANGED <<intSize, refactored, shape, typ, q, ret, out, fresh, calls>>

\* q[key][k-1] = "z", after Decode into a record that holds a []string:
\* every field whose slice is that list shows the write
WriteMap ==
    /\ op = "Decode"
    /\ shape = "ptr" /\ typ.Kind = "struct" /\ ret.kind # "panic"
    /\ ~qNow.isNil
    /\ TextSlices # {}
    /\ \E key \in DOMAIN qNow.m : \E k \in 1..Len(qNow.m[key]) :
          /\ qNow' = [qNow EXCEPT !.m[key][k] = sWritten]
          /\ obj' = <<[i \in 1..Len(typ.Fields) |->
                          IF i \in TextSlices /\ Aliases(i) /\ getName(typ.Fields[i]) = key
                          THEN [obj[1][i] EXCEPT !.elems[k] = sWritten]
                          ELSE obj[1][i]]>>
    /\ before' = obj
    /\ op' = "WriteMap"
    /\ UNCHANGED <<intSize, refactored, shape, typ, q, ret, out, fresh, calls>>

Next == DecodeCall \/ EncodeCall \/ DecodeBack \/ WriteField \/ WriteMap

Spec == Init /\ [][Next]_vars

(***************************************************************************)
(* Vocabulary of the properties                                            *)
(***************************************************************************)
\* Decode was called with a non-nil map on a pointer to a record that is
\* not itself a Decoder: its fields were walked
Walked ==
    /\ op = "Decode"
    /\ ~q.isNil
    /\ shape = "ptr"
    /\ typ.Kind = "struct"
    /\ typ.Dec = "none"

FieldIds == IF typ.Kind = "struct" THEN 1..Len(typ.Fields) ELSE {}

\* the record's field data now and when the last Decode started
Now(i) == Rec(shape, obj)[i]
Was(i) == Rec(shape, before)[i]

\* the field's value or address is a Decoder
IsDecoderField(f) == ImplementsDecoder(f.Type) \/ ImplementsDecoder(PtrTo(f.Type))

\* the width of a kind on this build
Width(kind) == IF kind \in {"int", "uint"} THEN intSize ELSE BitSize(kind)

Unsigned(s) == IF Len(s) > 0 /\ s[1] \in {"+", "-"} THEN Tail(s) ELSE s

\* s is a base-10 number: an optional sign and at least one digit
IsNumber(s) == Len(Unsigned(s)) > 0 /\ \A i \in 1..Len(Unsigned(s)) : IsDigit(Unsigned(s)[i])

\* the number s lies outside the range of an integer kind
OutOfRange(kind, s) ==
    /\ IsNumber(s)
    /\ IF kind \in IntKinds THEN ParseInt(s, Width(kind)).err = ErrRange
       ELSE IF s[1] = "-" THEN ParseUint(Unsigned(s), 64).mag # Zero4
       ELSE ParseUint(Unsigned(s), Width(kind)).err = ErrRange

\* s is text that a scalar kind accepts, within the kind's range
Accepts(kind, s) ==
    CASE kind = "string" -> TRUE
      [] kind = "bool" -> ParseBool(s).err = NoErr
      [] kind \in IntKinds -> ParseInt(s, Width(kind)).err = NoErr
      [] kind \in UintKinds -> ParseUint(s, Width(kind)).err = NoErr

\* s is the one text Encode writes for its value: true / false, or base 10
\* with no plus sign, no leading zero and no negative zero
Canonical(kind, s) ==
    CASE kind = "string" -> TRUE
      [] kind = "bool" -> s \in {sTrue, sFalse}
      [] kind \in IntKinds ->
            /\ IsNumber(s)
            /\ s[1] # "+"
            /\ Unsigned(s)[1] = "0" => s = <<"0">>
      [] kind \in UintKinds ->
            /\ IsNumber(s)
            /\ s[1] \notin {"+", "-"}
            /\ s[1] = "0" => s = <<"0">>

\* a record of exported scalar fields without tags, not a Decoder or Encoder
ScalarsNoTags ==
    /\ typ.Kind = "struct"
    /\ typ.Dec = "none" /\ typ.Enc = "none"
    /\ \A i \in FieldIds :
          /\ typ.Fields[i].Type = Scalar(typ.Fields[i].Type.Kind)
          /\ typ.Fields[i].Type.Kind \in ScalarKinds
          /\ typ.Fields[i].Tag = NoTag
          /\ IsExported(typ.Fields[i])

\* Encode ran on the record that Decode filled, fresh, from a map whose keys
\* are the fields' names and whose lists hold only text the kinds accept
RoundTripDone ==
    /\ op = "Encode"
    /\ shape = "ptr"
    /\ ScalarsNoTags
    /\ ~q.isNil
    /\ Rec(shape, before) = Zero(typ)
    /\ DOMAIN q.m = {LowerName(typ.Fields[i]) : i \in FieldIds}
    /\ \A i \in FieldIds :
          LET l == q.m[LowerName(typ.Fields[i])]
          IN  /\ Len(l) > 0
              /\ \A j \in 1..Len(l) : Accepts(typ.Fields[i].Type.Kind, l[j])

\* ... and every list is one canonical text
RoundTripCanonical ==
    /\ RoundTripDone
    /\ \A i \in FieldIds :
          LET l == q.m[LowerName(typ.Fields[i])]
          IN  Len(l) = 1 /\ Canonical(typ.Fields[i].Type.Kind, l[1])

\* C1 as stated: Decode into a fresh record of untagged scalar fields, then
\* Encode, returns the input map, for every map of in-range values under
\* the fields' names.
C1_RoundTripAnyText == RoundTripDone => ret = RetNil /\ out = q.m

\* C1 amended: the round trip returns the input map when the map holds,
\* under each exported field's name, exactly one canonical text in range.
C1_RoundTripCanonical == RoundTripCanonical => ret = RetNil /\ out = q.m

C1_Witness ==
    /\ RoundTripCanonical
    /\ typ = pairStruct("int8", "uint16")
    /\ q.m[<<"a">>] = <<<<"-", "1", "2", "8">>>>
    /\ q.m[<<"b">>] = <<<<"6", "5", "5", "3", "5">>>>
    /\ out = q.m

\* C2: Decode of a number outside the range of a numeric field's kind
\* returns an error and leaves the field as it was.
C2_OutOfRangeRejected ==
    \A k \in IntKinds \cup UintKinds :
        (/\ Walked
         /\ typ = testStruct(k)
         /\ <<"v">> \in DOMAIN q.m
         /\ Len(q.m[<<"v">>]) > 0
         /\ OutOfRange(k, q.m[<<"v">>][1]))
        => ret.kind # "nil" /\ Now(1) = Was(1)

\* what field i alone does to its data: a Decoder field decodes itself, any
\* other field coerces the values resolved for it
Alone(i) ==
    LET f == typ.Fields[i]
    IN  IF IsDecoderField(f)
        THEN LET c == decodeCustom(q.m, RV(f.Type, Was(i), TRUE), intSize)
             IN  [errs |-> c.ret.errs, data |-> c.data]
        ELSE IF Len(getValues(q.m, f)) = 0 THEN [errs |-> <<>>, data |-> Was(i)]
        ELSE LET r == parseFieldBuilt(q.m, f.Type, Was(i), getValues(q.m, f), intSize)
             IN  [errs |-> IF r.err = NilErr THEN <<>> ELSE <<r.err>>, data |-> r.data]

Failing == {i \in FieldIds : IsExported(typ.Fields[i]) /\ Alone(i).errs # <<>>}

\* C3: a field that fails to coerce stops nothing: every exported field is
\* left as it alone would be left (set when its own value coerces), every
\* failing field adds one error, and nil is returned exactly when no field
\* failed.
C3_ErrorsCollected ==
    Walked =>
        /\ \A i \in FieldIds : IsExported(typ.Fields[i]) => Now(i) = Alone(i).data
        /\ Len(ret.errs) = Cardinality(Failing)
        /\ ret.kind = "nil" <=> Failing = {}
        /\ ret.kind \in {"nil", "join"}

C3_Witness ==
    /\ Walked
    /\ typ = pairStruct("int8", "uint16")
    /\ q.m = (<<"a">> :> <<<<"1", "2", "8">>>>) @@ (<<"b">> :> <<<<"6", "5", "5", "3", "5">>>>)
    /\ Was(1) = Small(7) /\ Was(2) = Small(7)
    /\ Now(1) = Small(7)
    /\ Now(2) = MkInt(FALSE, <<LimbBase - 1, 0, 0, 0>>)
    /\ ret.kind = "join" /\ Len(ret.errs) = 1

\* field i was coerced from values: it holds what the coercion left in it,
\* and a coercion error is among the returned errors
CoercedFrom(i, values) ==
    LET r == parseFieldBuilt(q.m, typ.Fields[i].Type, Was(i), values, intSize)
    IN  /\ Now(i) = r.data
        /\ r.err # NilErr => \E j \in 1..Len(ret.errs) : ret.errs[j] = r.err

\* C4: an exported field that is no Decoder is coerced from the map's list
\* under its name when that list is not empty, else from its default list
\* when it declares one, else it keeps its value.
C4_ValueResolution ==
    Walked =>
        \A i \in FieldIds :
            LET f == typ.Fields[i]
                l == Lookup(q.m, getNameTags(f)[1])
            IN  (IsExported(f) /\ ~IsDecoderField(f)) =>
                    IF Len(l) > 0 THEN CoercedFrom(i, l)
                    ELSE IF Len(f.Tag.default) > 0
                    THEN CoercedFrom(i, Split(f.Tag.default[1]))
                    ELSE Now(i) = Was(i)

C4_Witness ==
    /\ Walked
    /\ typ = defaultedStruct
    /\ q.m = EmptyMap
    /\ Was(1) = Small(7)
    /\ Now(1) = Small(25)
    /\ ret = RetNil

\* C5 as stated: Decode with an empty or nil map returns nil and changes
\* nothing, for every target (here: every non-nil pointer target).
C5_EmptyOrNilMapNoEffect ==
    (op = "Decode" /\ shape = "ptr" /\ (q.isNil \/ q.m = EmptyMap))
    => ret = RetNil /\ obj = before

\* C5 amended: Decode with a nil map returns nil, changes nothing and calls
\* no DecodeQuery, for every target.
C5_NilMapNoEffect ==
    (op = "Decode" /\ q.isNil) => ret = RetNil /\ obj = before /\ calls = <<>>

C5_Witness ==
    /\ op = "Decode"
    /\ q.isNil
    /\ typ = defaultedStruct
    /\ obj = before
    /\ Now(1) = IntZero

\* C6: a target that implements Decoder, given a non-nil map, has its
\* DecodeQuery called exactly once with the whole map, Decode returns what
\* it returns and writes no field itself.
C6_TopLevelDecoderDelegates ==
    (/\ op = "Decode"
     /\ ~q.isNil
     /\ shape \in {"value", "ptr", "nilptr"}
     /\ ImplementsDecoder(ObjType(shape, typ)))
    => /\ calls = <<CallOf("DecodeQuery", typ, q.m)>>
       /\ ret.kind \in {"nil", "error"}

\* C7: Decode with a non-nil map returns a type error for a target passed
\* by value that is no Decoder, a primitive or a record.
C7_ByValueIsTypeError ==
    (/\ op = "Decode"
     /\ ~q.isNil
     /\ shape = "value"
     /\ ~ImplementsDecoder(typ))
    => ret.kind = "error" /\ obj = before

RemoveAt(seq, i) == [j \in 1..(Len(seq) - 1) |-> IF j < i THEN seq[j] ELSE seq[j + 1]]

\* what Encode returns for the same record without its field i
EncodedWithout(i) ==
    Encode(ValueOf(shape, [typ EXCEPT !.Fields = RemoveAt(typ.Fields, i)],
                   Layout(shape, RemoveAt(Rec(shape, obj), i)))).v

\* Encode walked the fields of the record
Encoded ==
    /\ op = "Encode"
    /\ shape \in {"value", "ptr", "ptrptr"}
    /\ typ.Kind = "struct"
    /\ typ.Enc = "none"
    /\ ret.kind # "panic"

\* C8: a field tagged "-" adds nothing to Encode's map, whatever it holds:
\* the map is the one the record gives without that field.
C8_DashNeverEncoded ==
    Encoded =>
        \A i \in FieldIds :
            (Len(typ.Fields[i].Tag.query) > 0 /\ Split(typ.Fields[i].Tag.query[1])[1] = <<"-">>)
            => out = EncodedWithout(i)

sOmitempty == <<"o", "m", "i", "t", "e", "m", "p", "t", "y">>

\* C9: a field with omitempty among the tag tokens after the name adds
\* nothing to Encode's map when it holds its zero value, and its text under
\* the tag's name otherwise.
C9_OmitEmptyAnyPosition ==
    Encoded =>
        \A i \in FieldIds :
            LET f == typ.Fields[i]
                tokens == IF Len(f.Tag.query) > 0 THEN Split(f.Tag.query[1]) ELSE <<>>
            IN  (/\ IsExported(f)
                 /\ f.Type.Kind \in ScalarKinds
                 /\ \E j \in 2..Len(tokens) : tokens[j] = sOmitempty)
                => IF Rec(shape, obj)[i] = Zero(f.Type) THEN out = EncodedWithout(i)
                   ELSE /\ tokens[1] \in DOMAIN out
                        /\ out[tokens[1]] = <<encodeScalar(f.Type.Kind, Rec(shape, obj)[i])>>

\* C10: Decode never writes a field tagged "-", whatever the map holds and
\* whatever defaults the field declares.
C10_DashNeverDecoded ==
    Walked =>
        \A i \in FieldIds :
            (Len(typ.Fields[i].Tag.query) > 0 /\ Split(typ.Fields[i].Tag.query[1])[1] = <<"-">>)
            => Now(i) = Was(i)

\* the text before the first comma
FirstToken(s) ==
    LET commas == {i \in 1..Len(s) : s[i] = ","}
    IN  IF commas = {} THEN s
        ELSE SubSeq(s, 1, (CHOOSE i \in commas : \A j \in commas : i <= j) - 1)

\* the external key name of a field, as documented
ExternalName(f) ==
    IF Len(f.Tag.query) = 0 THEN <<ToLower(f.Name[1])>> \o Tail(f.Name)
    ELSE FirstToken(f.Tag.query[1])

\* a record whose fields are all of scalar kinds
PlainRecord ==
    /\ typ.Kind = "struct"
    /\ \A i \in FieldIds : typ.Fields[i].Type = Scalar(typ.Fields[i].Type.Kind)
    /\ \A i \in FieldIds : typ.Fields[i].Type.Kind \in ScalarKinds

\* the value of field i as Encode sees it
FieldValue(i) == RV(typ.Fields[i].Type, Rec(shape, obj)[i], shape # "value")

\* C11: the external name of a field is its name with the first character
\* lower-cased and the rest unchanged, or the tag's first token verbatim;
\* Decode reads the map under that name only and Encode writes under it.
C11_ExternalName ==
    /\ (Walked /\ PlainRecord) =>
          \A i \in FieldIds :
              LET f == typ.Fields[i]
                  l == Lookup(q.m, ExternalName(f))
              IN  IsExported(f) =>
                      /\ Len(l) > 0 => CoercedFrom(i, l)
                      /\ (Len(l) = 0 /\ Len(f.Tag.default) = 0) => Now(i) = Was(i)
    /\ (Encoded /\ PlainRecord) =>
          DOMAIN out = {ExternalName(typ.Fields[i]) :
                          i \in {j \in FieldIds :
                                   /\ IsExported(typ.Fields[j])
                                   /\ ~getEncodingName(typ.Fields[j], FieldValue(j)).skip}}

sPageSize == <<"p", "a", "g", "e", "S", "i", "z", "e">>

C11_Witness ==
    /\ op = "Encode"
    /\ typ = defaultedStruct
    /\ q.m = (sPageSize :> <<<<"1">>>>) @@ (AllLower(sPageSize) :> <<<<"0">>>>)
    /\ Rec(shape, obj)[1] = Small(1)
    /\ out = (sPageSize :> <<<<"1">>>>)

\* the value a scalar kind takes from a text it accepts
Coerced(kind, s) ==
    CASE kind = "string" -> s
      [] kind = "bool" -> ParseBool(s).v
      [] kind \in IntKinds -> ParseInt(s, Width(kind)).v
      [] kind \in UintKinds -> MkInt(FALSE, ParseUint(s, Width(kind)).mag)

\* the exported fields that are slices of scalars and have a resolved list
SliceFields ==
    {i \in FieldIds :
        /\ IsExported(typ.Fields[i])
        /\ typ.Fields[i].Type.Kind = "slice"
        /\ typ.Fields[i].Type.Elem[1].Kind \in ScalarKinds
        /\ Len(getValues(q.m, typ.Fields[i])) > 0}

\* every string resolved for slice field i coerces to its element type
AllCoerce(i) ==
    \A j \in 1..Len(getValues(q.m, typ.Fields[i])) :
        Accepts(typ.Fields[i].Type.Elem[1].Kind, getValues(q.m, typ.Fields[i])[j])

\* C12: a slice field whose strings all coerce holds the coerced values in
\* input order; when one string fails the field keeps its value and one
\* error is recorded for it; the other fields are processed all the same.
C12_SliceAllOrNothing ==
    Walked =>
        /\ \A i \in SliceFields :
              LET values == getValues(q.m, typ.Fields[i])
                  kind == typ.Fields[i].Type.Elem[1].Kind
              IN  IF AllCoerce(i)
                  THEN /\ ~Now(i).isNil
                       /\ Now(i).elems = [j \in 1..Len(values) |-> Coerced(kind, values[j])]
                  ELSE Now(i) = Was(i)
        /\ \A i \in FieldIds \ SliceFields :
              IsExported(typ.Fields[i]) => Now(i) = Alone(i).data
        /\ SliceFields # {} =>
              Len(ret.errs) =
                  Cardinality({i \in SliceFields : ~AllCoerce(i)})
                  + Cardinality(Failing \ SliceFields)

\* the exported fields that are pointers to scalars and have a resolved list
PtrFields ==
    {i \in FieldIds :
        /\ IsExported(typ.Fields[i])
        /\ typ.Fields[i].Type.Kind = "ptr"
        /\ typ.Fields[i].Type.Elem[1].Kind \in ScalarKinds
        /\ Len(getValues(q.m, typ.Fields[i])) > 0}

\* C13: a pointer field whose resolved value coerces points to a referent
\* holding the coerced value; when it does not coerce an error is returned
\* and the field keeps the value it had (a nil pointer stays nil).
C13_PointerAttachedOnSuccess ==
    Walked =>
        \A i \in PtrFields :
            LET kind == typ.Fields[i].Type.Elem[1].Kind
                s == getValues(q.m, typ.Fields[i])[1]
            IN  IF Accepts(kind, s) THEN Now(i) = <<Coerced(kind, s)>>
                ELSE Now(i) = Was(i) /\ ret.kind = "join"

\* the fields Encode adds text for: exported scalars and slices of scalars
\* that are not skipped
Contributing ==
    {i \in FieldIds :
        /\ IsExported(typ.Fields[i])
        /\ \/ typ.Fields[i].Type.Kind \in ScalarKinds
           \/ /\ typ.Fields[i].Type.Kind = "slice"
              /\ typ.Fields[i].Type.Elem[1].Kind \in ScalarKinds
        /\ ~getEncodingName(typ.Fields[i], FieldValue(i)).skip}

\* the strings field i contributes: one for a scalar, one per element of a
\* slice, in element order
Contribution(i) ==
    LET t == typ.Fields[i].Type
        d == Rec(shape, obj)[i]
    IN  IF t.Kind = "slice"
        THEN [j \in 1..Len(d.elems) |-> encodeScalar(t.Elem[1].Kind, d.elems[j])]
        ELSE <<encodeScalar(t.Kind, d)>>

\* the contributions of the fields from i on that resolve to key k, joined
\* in declaration order
RECURSIVE ConcatFrom(_, _)
ConcatFrom(k, i) ==
    IF i > Len(typ.Fields) THEN <<>>
    ELSE IF i \in Contributing /\ ExternalName(typ.Fields[i]) = k
    THEN Contribution(i) \o ConcatFrom(k, i + 1)
    ELSE ConcatFrom(k, i + 1)

\* a record whose fields are all scalars or slices of scalars
ScalarsAndSlices ==
    /\ typ.Kind = "struct"
    /\ \A i \in FieldIds :
          \/ typ.Fields[i].Type.Kind \in ScalarKinds /\ typ.Fields[i].Type.Enc = "none"
          \/ /\ typ.Fields[i].Type.Kind = "slice"
             /\ typ.Fields[i].Type.Elem[1].Kind \in ScalarKinds

\* C14: Encode appends: the list under every key of the output is the
\* concatenation, in declaration order, of what the fields resolving to that
\* key contribute, and no other key is there.
C14_EncodeAppends ==
    (Encoded /\ ScalarsAndSlices) =>
        /\ ret = RetNil
        /\ \A k \in DOMAIN out : out[k] = ConcatFrom(k, 1)
        /\ DOMAIN out =
              {ExternalName(typ.Fields[i]) :
                  i \in {j \in Contributing : Len(Contribution(j)) > 0}}

C14_Witness ==
    /\ op = "Encode"
    /\ typ = sameKeyStruct
    /\ Rec(shape, obj)[1] = <<"0">>
    /\ Rec(shape, obj)[2].elems = <<<<"0">>, <<"1">>>>
    /\ out = (<<"k">> :> <<<<"0">>, <<"0">>, <<"1">>>>)

\* Encode was given a value, a pointer, or a pointer to a pointer, of a type
\* that declares EncodeValues
TopEncoder ==
    /\ op = "Encode"
    /\ shape \in {"value", "ptr", "ptrptr"}
    /\ typ.Enc # "none"

\* C15: when the value given to Encode, or its address, is an Encoder, the
\* output is exactly the map its EncodeValues returns, the error is its
\* error, EncodeValues is called once and no field is walked.
C15_TopLevelEncoderDelegates ==
    TopEncoder =>
        /\ out = EncodeValues(typ, Rec(shape, obj)).m
        /\ ret = RetErr(EncodeValues(typ, Rec(shape, obj)).err)
        /\ calls = <<CallOf("EncodeValues", typ, Rec(shape, obj))>>

C15_Witness ==
    /\ TopEncoder
    /\ typ = customEncoderStruct
    /\ shape = "value"
    /\ obj = <<<<"a">>>>
    /\ out = (sCustom :> <<<<"a">>>>)
    /\ ret = RetNil

\* C16: Encode gives a record and a pointer to it, at any depth, the same
\* map; a source that is no Encoder and does not lead to a record gets a
\* type error.
C16_RecordOrTypeError ==
    (op = "Encode" /\ typ.Enc = "none") =>
        IF shape \in {"value", "ptr", "ptrptr"} /\ typ.Kind = "struct"
        THEN /\ out = Encode(ValueOf("value", typ, Rec(shape, obj))).v
             /\ ret = Encode(ValueOf("value", typ, Rec(shape, obj))).ret
        ELSE ret.kind = "error"

\* C17: an unexported field never takes part: Decode leaves it as it was,
\* whatever the map holds under its name or tag and whatever default it
\* declares, and Encode's map is the one the record gives without it.
C17_UnexportedIgnored ==
    /\ Walked =>
          \A i \in FieldIds : ~IsUpper(typ.Fields[i].Name[1]) => Now(i) = Was(i)
    /\ Encoded =>
          \A i \in FieldIds : ~IsUpper(typ.Fields[i].Name[1]) => out = EncodedWithout(i)

C17_Witness ==
    /\ op = "Encode"
    /\ typ = hiddenStruct
    /\ q.m = (<<"k">> :> <<<<"1">>>>) @@ (<<"a">> :> <<<<"1">>>>) @@ (<<"b">> :> <<<<"x">>>>)
    /\ Rec(shape, before) = <<<<>>, <<>>>>
    /\ Rec(shape, obj) = <<<<>>, <<"x">>>>
    /\ out = (<<"b">> :> <<<<"x">>>>)

\* the exported fields whose value or address is an Encoder
EncoderFields ==
    {i \in FieldIds :
        /\ IsExported(typ.Fields[i])
        /\ \/ ImplementsEncoder(typ.Fields[i].Type)
           \/ ImplementsEncoder(PtrTo(typ.Fields[i].Type))}

FirstEncoderField == CHOOSE i \in EncoderFields : \A j \in EncoderFields : i <= j

\* what Encode returns for the record cut down to its first n fields
EncodedUpTo(n) ==
    Encode(ValueOf(shape, [typ EXCEPT !.Fields = SubSeq(typ.Fields, 1, n)],
                   Layout(shape, SubSeq(Rec(shape, obj), 1, n)))).v

\* C18: the first field that is an Encoder ends the walk of the record: the
\* output holds the entries of the fields before it and the Encoder's map,
\* nothing of the fields after it, and the call returns the Encoder's error
\* (a call that returns did not meet a nil pointer to an Encoder).
C18_EncoderFieldEndsRecord ==
    (Encoded /\ EncoderFields # {}) =>
        LET c == FirstEncoderField
            f == typ.Fields[FirstEncoderField]
            t == IF f.Type.Kind = "ptr" THEN f.Type.Elem[1] ELSE f.Type
            d == IF f.Type.Kind = "ptr" THEN Rec(shape, obj)[c][1] ELSE Rec(shape, obj)[c]
        IN  /\ Rec(shape, obj)[c] # <<>>
            /\ out = Merge(EncodedUpTo(c - 1), EncodeValues(t, d).m)
            /\ ret = RetErr(EncodeValues(t, d).err)
            /\ calls = <<CallOf("EncodeValues", t, d)>>

C18_Witness ==
    /\ op = "Encode"
    /\ typ = midCustomEncoderStruct
    /\ Rec(shape, obj) = <<<<"1">>, <<<<>>>>, <<"x">>>>
    /\ out = (<<"a">> :> <<<<"1">>>>) @@ (sCustom :> <<<<>>>>)
    /\ ret.kind = "error"

\* the exported fields whose type is a record that is no Encoder
NestedFields ==
    {i \in FieldIds :
        /\ IsExported(typ.Fields[i])
        /\ typ.Fields[i].Type.Kind = "struct"
        /\ i \notin EncoderFields}

\* C19 as stated: every exported scalar field of a nested record that is no
\* Encoder is in Encode's map under its own name.
C19_NestedFlattened ==
    (Encoded /\ EncoderFields = {}) =>
        \A i \in NestedFields :
            \A j \in 1..Len(typ.Fields[i].Type.Fields) :
                LET nf == typ.Fields[i].Type.Fields[j]
                IN  (IsExported(nf) /\ nf.Type.Kind \in ScalarKinds) =>
                        /\ ExternalName(nf) \in DOMAIN out
                        /\ \E n \in 1..Len(out[ExternalName(nf)]) :
                              out[ExternalName(nf)][n]
                                  = encodeScalar(nf.Type.Kind, Rec(shape, obj)[i][j])

\* C19 amended: a field whose type is a record that is no Encoder adds
\* nothing to Encode's map and causes no error: the map is the one the
\* record gives without that field.
C19_NestedIgnored ==
    (Encoded /\ EncoderFields = {}) =>
        /\ ret = RetNil
        /\ \A i \in NestedFields : out = EncodedWithout(i)

C19_Witness ==
    /\ Encoded
    /\ typ = nestedStruct
    /\ Rec(shape, obj) = <<<<<<"a">>>>, <<"a">>>>
    /\ out = (<<"b">> :> <<<<"a">>>>)

\* the exported fields that are pointers to scalars and that Encode does
\* not skip by their tag
EncodedPtrFields ==
    {i \in FieldIds :
        /\ IsExported(typ.Fields[i])
        /\ typ.Fields[i].Type.Kind = "ptr"
        /\ typ.Fields[i].Type.Elem[1].Kind \in ScalarKinds
        /\ ~getEncodingName(typ.Fields[i], FieldValue(i)).skip}

\* C20 as stated: a nil pointer field to a scalar is encoded as the zero
\* value of the scalar, under the field's key.
C20_NilPointerAsZero ==
    (Encoded /\ EncoderFields = {}) =>
        \A i \in EncodedPtrFields :
            Rec(shape, obj)[i] = <<>> =>
                /\ ExternalName(typ.Fields[i]) \in DOMAIN out
                /\ out[ExternalName(typ.Fields[i])]
                      = <<encodeScalar(typ.Fields[i].Type.Elem[1].Kind,
                                       Zero(typ.Fields[i].Type.Elem[1]))>>

\* C20 amended: a nil pointer field to a scalar adds nothing to Encode's
\* map and causes no error; a non-nil one adds the text of its referent.
C20_NilPointerSkipped ==
    (Encoded /\ EncoderFields = {}) =>
        \A i \in EncodedPtrFields :
            /\ ret = RetNil
            /\ IF Rec(shape, obj)[i] = <<>> THEN out = EncodedWithout(i)
               ELSE /\ ExternalName(typ.Fields[i]) \in DOMAIN out
                    /\ \E n \in 1..Len(out[ExternalName(typ.Fields[i])]) :
                          out[ExternalName(typ.Fields[i])][n]
                              = encodeScalar(typ.Fields[i].Type.Elem[1].Kind,
                                             Rec(shape, obj)[i][1])

C20_Witness ==
    /\ Encoded
    /\ typ = pointerTestStruct("int8")
    /\ Rec(shape, obj) = <<<<>>>>
    /\ out = EmptyMap
    /\ ret = RetNil

(***************************************************************************)
(* Decoder fields                                                          *)
(***************************************************************************)
DecoderFields ==
    {i \in FieldIds : IsExported(typ.Fields[i]) /\ IsDecoderField(typ.Fields[i])}

\* the type DecodeQuery is declared for, and the receiver's data when the
\* call starts: a new zero referent for a nil pointer
DecoderBase(i) ==
    IF typ.Fields[i].Type.Kind = "ptr" THEN typ.Fields[i].Type.Elem[1]
    ELSE typ.Fields[i].Type

Receiver(i) ==
    IF typ.Fields[i].Type.Kind # "ptr" THEN Was(i)
    ELSE IF Was(i) = <<>> THEN Zero(DecoderBase(i))
    ELSE Was(i)[1]

\* field i holds what its DecodeQuery made of the full map, behind the
\* pointer when the field is one, and its error is among those returned
Delegated(i) ==
    LET Holds(r) ==
            /\ Now(i) = IF typ.Fields[i].Type.Kind = "ptr" THEN <<r.data>> ELSE r.data
            /\ r.err # NilErr => \E j \in 1..Len(ret.errs) : ret.errs[j] = r.err
    IN  Holds(DecodeQuery(DecoderBase(i), q.m, Receiver(i), intSize))

\* C21: each Decoder field has its DecodeQuery called once, with the whole
\* map; the field holds what that call made of the map, whatever its name
\* tag and default say; a nil pointer field is attached to a new referent
\* first; and when the call fails its error is returned and the fields
\* after it are still decoded.
C21_DecoderFieldDelegates ==
    Walked =>
        /\ Len(calls) = Cardinality(DecoderFields)
        /\ \A j \in 1..Len(calls) : calls[j].fn = "DecodeQuery" /\ calls[j].arg = q.m
        /\ \A i \in DecoderFields :
              /\ \E j \in 1..Len(calls) : calls[j].recv = DecoderBase(i).Name
              /\ typ.Fields[i].Type.Kind = "ptr" => Now(i) # <<>>
              /\ Delegated(i)
        /\ DecoderFields # {} =>
              \A i \in FieldIds \ DecoderFields :
                  IsExported(typ.Fields[i]) => Now(i) = Alone(i).data

\* a nil *customStruct field tagged `query:"v" default:"5"`: the map holds
\* v but not custom, so the new referent is attached with Int 0, the Atoi
\* error is returned, and the next field is still set from v
C21_Witness ==
    /\ Walked
    /\ typ = taggedCustomStructFieldStruct
    /\ q.m = (<<"v">> :> <<<<"1">>>>)
    /\ Was(1) = <<>>
    /\ Now(1) = <<<<IntZero>>>>
    /\ Now(2) = <<"1">>
    /\ ret.kind = "join" /\ Len(ret.errs) = 1
    /\ Len(calls) = 1

(***************************************************************************)
(* Fields of kinds Decode has no coercion for                              *)
(***************************************************************************)
\* a record that is no Decoder, a map, a channel, a slice of anything but
\* text, booleans and integers
UnsupportedField(f) ==
    \/ f.Type.Kind \in {"map", "chan"}
    \/ f.Type.Kind = "struct" /\ ~IsDecoderField(f)
    \/ f.Type.Kind = "slice" /\ f.Type.Elem[1].Kind \notin ScalarKinds

UnsupportedFields ==
    {i \in FieldIds : IsExported(typ.Fields[i]) /\ UnsupportedField(typ.Fields[i])}

\* C22: a field that is a record without DecodeQuery, a map, a channel or a
\* slice of records keeps its value and adds no error, whatever the map
\* holds under its name and whatever default it declares.
C22_UnsupportedIgnored ==
    Walked =>
        /\ \A i \in UnsupportedFields : Now(i) = Was(i)
        /\ Len(ret.errs) <= Cardinality({i \in FieldIds : IsExported(typ.Fields[i])}
                                           \ UnsupportedFields)

\* a populated slice of records, declared with a default, and a map that
\* holds a value under its name: the slice is as it was and nil is returned
C22_Witness ==
    /\ Walked
    /\ typ = unsupportedStruct(SliceOf(testStruct("string")))
    /\ q.m = (<<"v">> :> <<<<"1">>>>)
    /\ Was(1) = Sample(SliceOf(testStruct("string")))
    /\ Now(1) = Was(1)
    /\ ret.kind = "nil"

(***************************************************************************)
(* What the recorded errors say                                            *)
(***************************************************************************)
\* the errors of the exported fields from field i on, each field alone, in
\* declaration order
RECURSIVE ErrsFrom(_)
ErrsFrom(i) ==
    IF i > Len(typ.Fields) THEN <<>>
    ELSE (IF IsExported(typ.Fields[i]) THEN Alone(i).errs ELSE <<>>) \o ErrsFrom(i + 1)

\* the strings field i is coerced from
Resolved(i) == {getValues(q.m, typ.Fields[i])[k] :
                   k \in 1..Len(getValues(q.m, typ.Fields[i]))}

\* C23 as stated: the recorded errors tell the failing fields apart, two
\* different fields never record equal errors.
C23_ErrorsTellFields ==
    Walked =>
        \A i \in Failing : \A j \in Failing :
            i # j => Alone(i).errs # Alone(j).errs

\* C23: the recorded errors are the conversions' own errors, one per
\* failing field in declaration order; the error of a field that is no
\* Decoder holds the conversion function, the input string it was given and
\* the cause, and nothing of the field, so two fields that fail alike on
\* the same string record equal errors.
C23_ErrorsUntagged ==
    Walked =>
        /\ ret.errs = ErrsFrom(1)
        /\ \A i \in Failing :
              ~IsDecoderField(typ.Fields[i]) =>
                  \A k \in 1..Len(Alone(i).errs) :
                      /\ Alone(i).errs[k].Func \in {"ParseBool", "ParseInt", "ParseUint", "Atoi"}
                      /\ Alone(i).errs[k].Num \in Resolved(i)
                      /\ Alone(i).errs[k].Err \in {ErrSyntax, ErrRange}

\* two int8 fields that both fail on "x": the two recorded errors are equal
C23_Witness ==
    /\ Walked
    /\ typ = pairStruct("int8", "int8")
    /\ q.m = (<<"a">> :> <<<<"x">>>>) @@ (<<"b">> :> <<<<"x">>>>)
    /\ Len(ret.errs) = 2
    /\ ret.errs[1] = ret.errs[2]
    /\ ret.errs[1] = NumError("ParseInt", <<"x">>, ErrSyntax)

(***************************************************************************)
(* Returning to the caller                                                 *)
(***************************************************************************)
\* C24: every call of Decode and of Encode returns, with nil or an error,
\* whatever the shape of its argument: nil, a nil pointer, a pointer to a
\* pointer, a value.
C24_AlwaysReturns ==
    op \in {"Decode", "Encode"} => ret.kind \in {"nil", "error", "join"}

(***************************************************************************)
(* Encode, then Decode into a new record                                   *)
(***************************************************************************)
\* text, booleans and integers, pointers to them and slices of them
Basic(t) ==
    \/ t.Kind \in ScalarKinds
    \/ t.Kind \in {"ptr", "slice"} /\ t.Elem[1].Kind \in ScalarKinds

sDash == <<"-">>

\* the field's name tag has neither "-" as its name nor an omitempty token
NoDirective(f) ==
    /\ getNameTags(f)[1] # sDash
    /\ \A k \in 1..Len(getNameTags(f)) : getNameTags(f)[k] # sOmitempty

ExportedIds == {i \in FieldIds : IsExported(typ.Fields[i])}

\* the last Encode's map was decoded into a new record of a type whose
\* exported fields are all basic and carry no directive
WentRound ==
    /\ op = "DecodeBack"
    /\ typ.Dec = "none" /\ typ.Enc = "none"
    /\ \A i \in ExportedIds : Basic(typ.Fields[i].Type) /\ NoDirective(typ.Fields[i])

Source(i) == Rec(shape, obj)[i]
Back(i) == fresh[1][i]

\* equal field values: slices by their elements
Same(t, a, b) == IF t.Kind = "slice" THEN a.elems = b.elems ELSE a = b

Emits(i) ==
    CASE typ.Fields[i].Type.Kind = "ptr" -> Source(i) # <<>>
      [] typ.Fields[i].Type.Kind = "slice" -> Len(Source(i).elems) > 0
      [] OTHER -> TRUE

DistinctKeys ==
    \A i \in ExportedIds : \A j \in ExportedIds :
        i # j => getName(typ.Fields[i]) # getName(typ.Fields[j])

\* the new record's field i holds what its defaults coerce to
FromDefaults(i) ==
    LET Holds(r) == r.err = NilErr /\ Same(typ.Fields[i].Type, Back(i), r.data)
    IN  Holds(parseFieldBuilt(out, typ.Fields[i].Type, Zero(typ.Fields[i].Type),
                              getDefaultTags(typ.Fields[i]), intSize))

DefaultedNumbers ==
    {i \in ExportedIds :
        /\ typ.Fields[i].Type.Kind \in {"bool"} \cup IntKinds \cup UintKinds
        /\ getDefaultTags(typ.Fields[i]) # <<>>}

\* the single empty string, as a query like ?pageSize= gives it
Blank == <<<<>>>>

\* C26: a boolean or integer field with a default takes the default when
\* its key is absent or holds an empty list; when the key holds the single
\* empty string, that string is coerced: the field keeps its value and the
\* syntax error for "" is returned.
C26_BlankIsCoerced ==
    Walked =>
        \A i \in DefaultedNumbers :
            /\ Lookup(q.m, getName(typ.Fields[i])) = <<>>
                  => CoercedFrom(i, getDefaultTags(typ.Fields[i]))
            /\ Lookup(q.m, getName(typ.Fields[i])) = Blank
                  => /\ Now(i) = Was(i)
                     /\ \E j \in 1..Len(ret.errs) :
                           ret.errs[j].Num = <<>> /\ ret.errs[j].Err = ErrSyntax

\* PageSize uint32 `default:"25"` holding 7, decoded from {"pageSize": [""]}:
\* still 7, and an error
C26_Witness ==
    /\ Walked
    /\ typ = defaultedStruct
    /\ q.m = (sPageSize :> Blank)
    /\ Was(1) = Small(7)
    /\ Now(1) = Small(7)
    /\ ret.kind = "join"

(***************************************************************************)
(* The map after Decode                                                    *)
(***************************************************************************)
\* C27: when the target's type declares no DecodeQuery anywhere, the map
\* the caller holds after Decode returned, with nil or with errors, has the
\* keys and the lists, in their order, that it had when it was passed.
C27_MapOnlyRead ==
    (op = "Decode" /\ ~HasDecoder(typ) /\ ret.kind # "panic") => qNow = q

\* one field fails on its list, the next is set from its own: the map is as
\* passed
C27_Witness ==
    /\ Walked
    /\ typ = pairStruct("int8", "uint16")
    /\ q.m = (<<"a">> :> <<<<"x">>, <<"1">>>>) @@ (<<"b">> :> <<<<"1">>>>)
    /\ ret.kind = "join"
    /\ Now(2) = Small(1)
    /\ qNow = q

(***************************************************************************)
(* Writes after Decode                                                     *)
(***************************************************************************)
\* C28: a write to an element of a []string field of the decoded record
\* leaves the map as it was passed, and a write to an element of a list of
\* the map leaves the record as Decode left it.
C28_SliceIndependent ==
    /\ op = "WriteField" => qNow = q
    /\ op = "WriteMap" => obj = before

====
